---------------------------- MODULE Spec2Model ----------------------------
(***************************************************************************)
(* A model of notion2ical: Notion2ICal.convert (src/src/core/notion2ical.ts)*)
(* with its pagination walk, per-record extraction, duplicate detection,   *)
(* error hook, and the incremental state kept by an                        *)
(* IncrementalStorageRepository.                                           *)
(*                                                                         *)
(* Representation of the values the code handles:                          *)
(*   - instants of the run clock (syncedAt, created_time, last_edited_time,*)
(*     lastSynced, lastFullSync) are integers; Date <-> ISO string is      *)
(*     lossless at millisecond precision and is carried as the integer;    *)
(*   - a raw date string of a "date" property is one of                    *)
(*       Null                                  (null / undefined)          *)
(*       [k |-> "empty"]                       the empty string            *)
(*       [k |-> "ymd", y, m, d]       "YYYY-MM-DD", digits only, no "T"    *)
(*       [k |-> "iso", day, ms]       a parsable timestamp containing "T"  *)
(*       [k |-> "junk", hasT]         any other string                     *)
(*   - a Date built from a property value is [day, ms]: the civil day      *)
(*     number since 1970-01-01 and the millisecond within that day;        *)
(*   - a DateOnly tuple [year, month, day] is the record of those fields.  *)
(***************************************************************************)
EXTENDS Integers, Sequences, FiniteSets, TLC

(***************************************************************************)
(* Bounds of the model.                                                    *)
(***************************************************************************)
MaxRuns == 2
MaxClock == 2
MaxEdits == 1
AgeBound == 20

Null == [k |-> "null"]
MsPerDay == 24 * 60 * 60 * 1000

(***************************************************************************)
(* Civil calendar arithmetic of the JavaScript Date (proleptic Gregorian,  *)
(* UTC).                                                                   *)
(***************************************************************************)
DaysFromCivil(y, m, d) ==
  LET yy  == IF m <= 2 THEN y - 1 ELSE y
      era == yy \div 400
      yoe == yy - era * 400
      mp  == IF m > 2 THEN m - 3 ELSE m + 9
      doy == (153 * mp + 2) \div 5 + d - 1
      doe == yoe * 365 + yoe \div 4 - yoe \div 100 + doy
  IN era * 146097 + doe - 719468

CivilFromDays(n) ==
  LET z   == n + 719468
      era == z \div 146097
      doe == z - era * 146097
      yoe == (doe - doe \div 1460 + doe \div 36524 - doe \div 146096) \div 365
      doy == doe - (365 * yoe + yoe \div 4 - yoe \div 100)
      mp  == (5 * doy + 2) \div 153
      d   == doy - (153 * mp + 2) \div 5 + 1
      m   == IF mp < 10 THEN mp + 3 ELSE mp - 9
      y   == yoe + era * 400 + (IF m <= 2 THEN 1 ELSE 0)
  IN [year |-> y, month |-> m, day |-> d]

\* Date.UTC(year, monthIndex, day) as a day number: a year 0..99 means
\* 1900 + year, and month/day overflow carries.
DateUTC(year, monthIndex, day) ==
  LET fullYear == IF year \in 0..99 THEN 1900 + year ELSE year
      months   == fullYear * 12 + monthIndex
  IN DaysFromCivil(months \div 12, (months % 12) + 1, 1) + day - 1

\* new Date(value) for a raw date string; ok = FALSE is the Invalid Date
\* (getTime() is NaN). A date-only string is UTC midnight; Node accepts a
\* day of 1..31 in any month and carries the overflow.
NewDate(value) ==
  CASE value.k = "iso" -> [ok |-> TRUE, day |-> value.day, ms |-> value.ms]
    [] value.k = "ymd" ->
         IF value.m \in 1..12 /\ value.d \in 1..31
         THEN [ok |-> TRUE,
               day |-> DaysFromCivil(value.y, value.m, 1) + value.d - 1,
               ms |-> 0]
         ELSE [ok |-> FALSE, day |-> 0, ms |-> 0]
    [] OTHER -> [ok |-> FALSE, day |-> 0, ms |-> 0]

\* an end that ignores the duration (the variant C25 is measured against)
AddMsNone(date, durationMs) == date

\* new Date(start.getTime() + defaultDurationMs)
AddMs(date, durationMs) ==
  LET total == date.ms + durationMs
  IN [day |-> date.day + total \div MsPerDay, ms |-> total % MsPerDay]

(***************************************************************************)
(* Errors (src/unnamed/part_002, part_003, src/src/types/errors).          *)
(***************************************************************************)
MissingPropertyError(pageId, property) ==
  [name |-> "MissingPropertyError", pageId |-> pageId, property |-> property,
   expected |-> ""]

InvalidPropertyTypeError(pageId, property, actualType, expectedType) ==
  [name |-> "InvalidPropertyTypeError", pageId |-> pageId,
   property |-> property, expected |-> expectedType]

EmptyDateError(pageId) ==
  [name |-> "EmptyDateError", pageId |-> pageId, property |-> "",
   expected |-> ""]

DateValueError(pageId) ==
  [name |-> "DateValueError", pageId |-> pageId, property |-> "",
   expected |-> ""]

DuplicateEventError(eventId) ==
  [name |-> "DuplicateEventError", pageId |-> eventId, property |-> "",
   expected |-> ""]

\* WrapperError: the message of the wrapper is "<message>: <cause.message>"
\* (the cause is not kept as a field; its message and stack are).
Causes == {"ECONNRESET", "EACCES"}
WrapperError(name, message, cause) ==
  [name |-> name, message |-> message \o ": " \o cause]

\* a wrapper that drops its cause (the variant C11 is measured against)
NotionQueryErrorBare(cause) ==
  [name |-> "NotionQueryError", message |-> "Notion query failed"]

NotionQueryError(cause) ==
  WrapperError("NotionQueryError", "Notion query failed", cause)
StorageError(cause) ==
  WrapperError("StorageError", "Storage operation failed", cause)
CalendarBuildError(cause) ==
  WrapperError("CalendarBuildError", "iCal build failed", cause)

(***************************************************************************)
(* Date Normalizer.                                                        *)
(***************************************************************************)
\* a check that lets the empty string through (the variant C22 is measured
\* against)
FalsyNullOnly(value) == value.k = "null"

\* JavaScript truthiness of a raw string value: null, undefined and "" are
\* falsy.
Falsy(value) == value.k \in {"null", "empty"}

\* A DateOnly [year, month, day]; NoDateOnly stands where parsing threw.
NoDateOnly == [year |-> 0]

\* parseDateOnly: the strict /^(\d{4})-(\d{2})-(\d{2})$/ match; Date.UTC of
\* three finite numbers is never NaN, so a matching string always parses.
parseDateOnly(value) ==
  IF value.k = "ymd"
  THEN [ok |-> TRUE,
        value |-> [year |-> value.y, month |-> value.m, day |-> value.d]]
  ELSE [ok |-> FALSE, value |-> NoDateOnly]

shiftDateOnly(date, days) ==
  CivilFromDays(DateUTC(date.year, date.month - 1, date.day) + days)

getExclusiveAllDayEnd(start, inclusiveEnd) ==
  IF Falsy(inclusiveEnd)
  THEN [ok |-> TRUE, value |-> shiftDateOnly(start, 1)]
  ELSE LET parsedInclusiveEnd == parseDateOnly(inclusiveEnd)
       IN IF ~parsedInclusiveEnd.ok
          THEN [ok |-> FALSE, value |-> NoDateOnly]
          ELSE LET startUtc == DateUTC(start.year, start.month - 1, start.day)
                   inclusiveUtc == DateUTC(parsedInclusiveEnd.value.year,
                                           parsedInclusiveEnd.value.month - 1,
                                           parsedInclusiveEnd.value.day)
               IN IF inclusiveUtc < startUtc
                  THEN [ok |-> FALSE, value |-> NoDateOnly]
                  ELSE [ok |-> TRUE,
                        value |-> shiftDateOnly(parsedInclusiveEnd.value, 1)]

\* every value taken as a timestamp (the variant C26 is measured against)
hasTimeComponentAlways(value) == TRUE

hasTimeComponent(value) ==
  CASE value.k = "iso" -> TRUE
    [] value.k = "junk" -> value.hasT
    [] OTHER -> FALSE

\* An optional value (string | undefined, Date | undefined, state |
\* undefined) is a set holding at most one value.
Undefined == {}
Some(s) == {s}
The(opt) == CHOOSE v \in opt : TRUE
\* an empty name taken as a request (the variant C27 is measured against)
FalsyNameStrict(opt) == opt = {}

FalsyName(opt) == opt = {} \/ opt = {""}

(***************************************************************************)
(* Record Validator/Extractor. A page is                                   *)
(*   [id, created_time, last_edited_time, properties]                      *)
(* and properties maps a property name to                                  *)
(*   [type, title, date, rich_text]                                        *)
(* (title and rich_text: the plain_text of the runs; date: Null or         *)
(* [k |-> "range", start, end]); the fields of the other kinds are unused. *)
(***************************************************************************)
\* a text with no fallback (the variant C33 is measured against)
firstPlainTextOrEmpty(runs, fallback) ==
  IF Len(runs) > 0 THEN runs[1] ELSE ""

\* runs[0]?.plain_text ?? fallback: the text of the first run, or the
\* fallback when there is no run
firstPlainText(runs, fallback) ==
  IF Len(runs) > 0 THEN runs[1] ELSE fallback

Failure(error) == [ok |-> FALSE, error |-> error]
Success(event) == [ok |-> TRUE, value |-> event]

extractEventDetails(titlePropertyName, datePropertyName, descriptionPropertyName, defaultDurationMs, page) ==
  LET properties == page.properties
      pageId == page.id
      has(n) == n \in DOMAIN properties
  IN
  \* 1) Title must exist and be correct type
  IF ~has(titlePropertyName)
  THEN Failure(MissingPropertyError(pageId, titlePropertyName))
  ELSE IF properties[titlePropertyName].type # "title"
  THEN Failure(InvalidPropertyTypeError(pageId, titlePropertyName,
                 properties[titlePropertyName].type, "title"))
  \* 2) Date must exist and be correct type
  ELSE IF ~has(datePropertyName)
  THEN Failure(MissingPropertyError(pageId, datePropertyName))
  ELSE IF properties[datePropertyName].type # "date"
  THEN Failure(InvalidPropertyTypeError(pageId, datePropertyName,
                 properties[datePropertyName].type, "date"))
  ELSE IF properties[datePropertyName].date = Null
          \/ Falsy(properties[datePropertyName].date.start)
  THEN Failure(EmptyDateError(pageId))
  \* 3) Description (if provided) must be rich_text
  ELSE IF ~FalsyName(descriptionPropertyName)
          /\ ~has(The(descriptionPropertyName))
  THEN Failure(MissingPropertyError(pageId,
                 The(descriptionPropertyName)))
  ELSE IF ~FalsyName(descriptionPropertyName)
          /\ properties[The(descriptionPropertyName)].type
               # "rich_text"
  THEN Failure(InvalidPropertyTypeError(pageId,
                 The(descriptionPropertyName),
                 properties[The(descriptionPropertyName)].type,
                 "rich_text"))
  ELSE
  LET titleProperty == properties[titlePropertyName]
      dateProperty == properties[datePropertyName]
      description ==
        IF FalsyName(descriptionPropertyName) THEN ""
        ELSE LET rt == properties[The(descriptionPropertyName)].rich_text
             IN firstPlainText(rt, "")
      title == firstPlainText(titleProperty.title, "Untitled")
      createdAt == page.created_time
      updatedAt == page.last_edited_time
      startRaw == dateProperty.date.start
      endRaw == dateProperty.date.end
      isAllDayEvent == ~hasTimeComponent(startRaw) /\ ~hasTimeComponent(endRaw)
  IN
  IF isAllDayEvent
  THEN LET start == parseDateOnly(startRaw)
           end == getExclusiveAllDayEnd(start.value, endRaw)
       IN IF ~start.ok \/ ~end.ok
          THEN Failure(DateValueError(pageId))
          ELSE Success([kind |-> "all-day", id |-> pageId, title |-> title,
                        start |-> start.value, end |-> end.value,
                        description |-> description,
                        createdAt |-> createdAt, updatedAt |-> updatedAt])
  ELSE LET start == NewDate(startRaw)
           end == IF endRaw = Null
                  THEN [ok |-> TRUE] @@ AddMs(start, defaultDurationMs)
                  ELSE NewDate(endRaw)
       IN IF ~start.ok \/ ~end.ok
          THEN Failure(DateValueError(pageId))
          ELSE Success([kind |-> "timed", id |-> pageId, title |-> title,
                        start |-> [day |-> start.day, ms |-> start.ms],
                        end |-> [day |-> end.day, ms |-> end.ms],
                        description |-> description,
                        createdAt |-> createdAt, updatedAt |-> updatedAt])

(***************************************************************************)
(* The incremental state and the storage collaborator's values.            *)
(***************************************************************************)
\* new NotionIncrementalState(lastFullSync, lastSynced, events)
NotionIncrementalState(lastFullSync_, lastSynced_, events_) ==
  [lastFullSync |-> lastFullSync_, lastSynced |-> lastSynced_,
   events |-> events_]

EmptyMap == [id \in {} |-> {}]

(***************************************************************************)
(* The caller's parameters of convert (test/core/notion2ical.test.ts).     *)
(***************************************************************************)
databaseId == "21269e03eefe809883acf1859c722a49"
titlePropertyName == "Name"
datePropertyName == "Date"
descPropertyName == Some("Description")
calendarName == "Test Calendar"
defaultDurationMs == 15 * 60 * 1000

\* fromDate / untilDate the caller may pass (instants, optional).
FromDates == {Undefined, {2}}
UntilDates == {{1}}

\* Array.prototype.join("-") renders undefined as the empty string.
JoinPart(opt) == IF opt = {} THEN "" ELSE The(opt)
JoinDate(opt) == IF opt = {} THEN "" ELSE ToString(The(opt))

\* getCacheKey: the md5 digest is carried as the string it digests.
getCacheKey(databaseId_, titlePropertyName_, datePropertyName_, descPropertyName_, calendarName_, defaultDurationMs_, fromDate_, untilDate_) ==
  databaseId_ \o "-" \o titlePropertyName_ \o "-" \o datePropertyName_
    \o "-" \o JoinPart(descPropertyName_) \o "-" \o calendarName_
    \o "-" \o ToString(defaultDurationMs_)
    \o "-" \o JoinDate(fromDate_) \o "-" \o JoinDate(untilDate_)

(***************************************************************************)
(* The remote source: the pages of the database and the cursors it hands   *)
(* out.                                                                     *)
(***************************************************************************)
PageIds == {"p1", "p2"}
NoCursor == "undefined"
Cursors == {"c1"}

TitleProperty(runs) ==
  [date |-> Null, type |-> "title", rich_text |-> <<>>, title |-> runs]
DateProperty(start, end) ==
  [date |-> [k |-> "range", start |-> start, end |-> end],
   type |-> "date", rich_text |-> <<>>, title |-> <<>>]
EmptyDateProperty(shape) ==
  [date |-> Null, type |-> "date", rich_text |-> <<>>, title |-> <<>>]
RichTextProperty(runs) ==
  [date |-> Null, type |-> "rich_text", rich_text |-> runs, title |-> <<>>]

Iso(day, ms) == [k |-> "iso", day |-> day, ms |-> ms]
Ymd(y, m, d) == [k |-> "ymd", y |-> y, m |-> m, d |-> d]

\* The property sets a page of the database can carry, by name: a timed
\* event "A", an all-day event "B", a page with no title property, and a
\* page whose date property is empty.
PageShapes == {"TimedA", "AllDayB", "NoTitle", "NoStart"}

Properties(shape) ==
  CASE shape = "TimedA" ->
         [n \in {"Name", "Date", "Description"} |->
            CASE n = "Name" -> TitleProperty(<<"A">>)
              [] n = "Date" -> DateProperty(Iso(20300, 36000000), Null)
              [] OTHER -> RichTextProperty(<<"a">>)]
    [] shape = "AllDayB" ->
         [n \in {"Name", "Date", "Description"} |->
            CASE n = "Name" -> TitleProperty(<<"B">>)
              [] n = "Date" -> DateProperty(Ymd(2025, 8, 31), Null)
              [] OTHER -> RichTextProperty(<<>>)]
    [] shape = "NoTitle" ->
         [n \in {"Date", "Description"} |->
            CASE n = "Date" -> DateProperty(Iso(20300, 36000000), Null)
              [] OTHER -> RichTextProperty(<<"a">>)]
    [] shape = "NoStart" ->
         [n \in {"Name", "Date", "Description"} |->
            CASE n = "Name" -> TitleProperty(<<"A">>)
              [] n = "Date" -> EmptyDateProperty(shape)
              [] OTHER -> RichTextProperty(<<"a">>)]

\* The database query: the pages matching the filter. The date bounds are
\* applied by the remote source to the date property; the core only passes
\* them on, so any subset of the pages edited since the bound may come back.
Matching(pagesOfDb, editedSince) ==
  {id \in DOMAIN pagesOfDb :
     editedSince = {} \/ pagesOfDb[id].last_edited_time >= The(editedSince)}

\* The responses the remote source can give to one query: at most pageSize
\* matching pages, in any order, and any next cursor (NoCursor: null).
pageSize == 1
ResponsesOf(pagesOfDb, editedSince, cursors) ==
  LET ids == Matching(pagesOfDb, editedSince)
  IN {[results |-> [i \in DOMAIN order |-> pagesOfDb[order[i]]],
       next_cursor |-> c] :
        order \in UNION {[1..n -> ids] : n \in 0..pageSize},
        c \in cursors \cup {NoCursor}}

Responses(pagesOfDb, editedSince) ==
  ResponsesOf(pagesOfDb, editedSince, Cursors)

(***************************************************************************)
(* The error hook. "default" is the hook the constructor installs when the *)
(* caller supplies none (log and skip); "skipEmptyDate" is the caller's    *)
(* hook of the tests: it returns for an EmptyDateError and rethrows every  *)
(* other error.                                                            *)
(***************************************************************************)
Hooks == {"default", "skipEmptyDate"}

\* a hook that rethrows every error (the variant C7 is measured against)
onPageErrorAlwaysThrows(hook, error) == TRUE

onPageErrorThrows(hook, error) ==
  CASE hook = "default" -> FALSE
    [] hook = "skipEmptyDate" -> error.name # "EmptyDateError"

(***************************************************************************)
(* accumulateEvents: the loop over the fetched pages. The result carries   *)
(* the event map, the calls made to the hook and to the extractor (by the  *)
(* index of the page in pages), and the error the hook threw, if it did.   *)
(***************************************************************************)
\* an insertion under the title of the event (the variant C38 is measured
\* against)
insertEventByTitle(eventsMap_, event) == (event.title :> event) @@ eventsMap_

\* options.eventsMap[event.id] = event
insertEvent(eventsMap_, event) == (event.id :> event) @@ eventsMap_

HookCall(error, page, at) == [error |-> error, pageId |-> page.id, at |-> at]

\* the loop body without the duplicate check: the later record overwrites
\* (the variant C5 is measured against)
accumulatePageOverwrite(hook, options, page, at, acc) ==
  LET result == extractEventDetails(options.titlePropertyName,
                  options.datePropertyName, options.descPropertyName,
                  options.defaultDurationMs, page)
  IN IF result.ok
     THEN [acc EXCEPT
             !.eventsMap = insertEvent(@, result.value),
             !.extracted = Append(@, at),
             !.inserted = Append(@, at)]
     ELSE [acc EXCEPT
             !.extracted = Append(@, at),
             !.hookCalls = Append(@, HookCall(result.error, page, at)),
             !.thrown = IF onPageErrorThrows(hook, result.error)
                        THEN {result.error} ELSE {}]

\* the loop body that drops a duplicate without calling the hook (the
\* variant C8 is measured against)
accumulatePageSilent(hook, options, page, at, acc) ==
  IF page.id \in DOMAIN acc.eventsMap
  THEN acc
  ELSE accumulatePageOverwrite(hook, options, page, at, acc)

accumulatePage(hook, options, page, at, acc) ==
  IF page.id \in DOMAIN acc.eventsMap
  THEN LET error == DuplicateEventError(page.id)
       IN [acc EXCEPT !.hookCalls = Append(@, HookCall(error, page, at)),
                      !.thrown = IF onPageErrorThrows(hook, error)
                                 THEN {error} ELSE {}]
  ELSE LET result == extractEventDetails(options.titlePropertyName,
                       options.datePropertyName, options.descPropertyName,
                       options.defaultDurationMs, page)
       IN IF result.ok
          THEN [acc EXCEPT
                  !.eventsMap = insertEvent(@, result.value),
                  !.extracted = Append(@, at),
                  !.inserted = Append(@, at)]
          ELSE [acc EXCEPT
                  !.extracted = Append(@, at),
                  !.hookCalls = Append(@, HookCall(result.error, page, at)),
                  !.thrown = IF onPageErrorThrows(hook, result.error)
                             THEN {result.error} ELSE {}]

RECURSIVE accumulateFrom(_, _, _, _, _)
accumulateFrom(hook, options, pages_, at, acc) ==
  IF at > Len(pages_) \/ acc.thrown # {}
  THEN acc
  ELSE accumulateFrom(hook, options, pages_, at + 1,
                      accumulatePage(hook, options, pages_[at], at, acc))

accumulateEvents(hook, pages_, options) ==
  accumulateFrom(hook, options, pages_, 1,
                 [eventsMap |-> options.eventsMap, hookCalls |-> <<>>,
                  extracted |-> <<>>, inserted |-> <<>>, thrown |-> {}])

(***************************************************************************)
(* buildCalendar: one attribute record per event of the map, and the       *)
(* header block. The encoder's input list is carried as the map from the   *)
(* key of the entry to its attribute record (the order of Object.values is *)
(* the insertion order, which no claim reads); a timed getTime() is        *)
(* carried as the [day, ms] pair.                                          *)
(***************************************************************************)
EventAttributes(event) ==
  [uid |-> event.id, start |-> event.start, end |-> event.end,
   title |-> event.title, description |-> event.description,
   created |-> event.createdAt, lastModified |-> event.updatedAt]

\* an encoder input that leaves the all-day events out (the variant C31 is
\* measured against)
buildCalendarTimedOnly(eventsMap_, name) ==
  [events |-> [id \in {k \in DOMAIN eventsMap_ : eventsMap_[k].kind = "timed"} |-> EventAttributes(eventsMap_[id])],
   headers |-> [calName |-> name, productId |-> "Notion2ICal"]]

buildCalendar(eventsMap_, name) ==
  [events |-> [id \in DOMAIN eventsMap_ |-> EventAttributes(eventsMap_[id])],
   headers |-> [calName |-> name, productId |-> "Notion2ICal"]]

(***************************************************************************)
(* The expressions of convert and fetchAllPages that decide the run.       *)
(***************************************************************************)
\* no range check (the variant C9 is measured against)
InvalidRangeNever(fromDate_, untilDate_) == FALSE

\* fromDate && untilDate && fromDate > untilDate
InvalidRange(fromDate_, untilDate_) ==
  fromDate_ # {} /\ untilDate_ # {} /\ The(fromDate_) > The(untilDate_)

\* state?.lastFullSync ?? syncedAt
SeedLastFullSync(state_, syncedAt_) ==
  IF state_ = {} THEN syncedAt_ ELSE The(state_).lastFullSync

\* a working map that always starts empty (the variant C2 is measured
\* against)
SeedEventsEmpty(state_) == EmptyMap

\* state?.events ?? {}
SeedEvents(state_) ==
  IF state_ = {} THEN EmptyMap ELSE The(state_).events

\* a walk that never filters on the modification time (the variant C29 is
\* measured against)
EditedSinceNever(state_) == {}

\* state?.lastSynced, the editedSince argument of fetchAllPages
EditedSince(state_) ==
  IF state_ = {} THEN {} ELSE {The(state_).lastSynced}

\* no cycle guard (the variant C10 is measured against)
CursorNeverRepeated(seenCursors_, cursor_) == FALSE

\* seenCursors.has(cursor)
CursorRepeated(seenCursors_, cursor_) == cursor_ \in seenCursors_

\* while (cursor): undefined and "" end the walk
Truthy(cursor_) == cursor_ # NoCursor /\ cursor_ # ""

\* new NotionIncrementalState(syncedAt, lastFullSync, eventsMap), the state
\* convert hands to saveCachedState
StateToSave(syncedAt_, lastFullSync_, eventsMap_) ==
  NotionIncrementalState(syncedAt_, lastFullSync_, eventsMap_)

\* incrementalUpdateStorage.get(cacheKey) of a repository that answers
StorageGet(store_, cacheKey_) ==
  IF cacheKey_ \in DOMAIN store_ THEN {store_[cacheKey_]} ELSE {}

\* a repository that keeps the first state written for a key (the variant
\* C14 is measured against)
StorageSetIfAbsent(store_, cacheKey_, state_) ==
  IF cacheKey_ \in DOMAIN store_ THEN store_ ELSE (cacheKey_ :> state_)

\* incrementalUpdateStorage.set(cacheKey, state) of a repository that answers
StorageSet(store_, cacheKey_, state_) ==
  (cacheKey_ :> state_) @@ store_

\* a convert that swallows the throw of the hook (the variant C6 is measured
\* against)
AfterAccumulateContinue(acc) == "saveCachedState"

\* a convert that builds the calendar without saving the state first (the
\* variant C21 is measured against)
AfterAccumulateSkipSave(acc) ==
  IF acc.thrown # {} THEN "thrown" ELSE "buildCalendar"

\* where convert goes after accumulateEvents: a throw of the hook
\* propagates out of convert
AfterAccumulate(acc) ==
  IF acc.thrown # {} THEN "thrown" ELSE "saveCachedState"

(***************************************************************************)
(* IncrementalStorageFileRepository (src/unnamed/part_000). A document is  *)
(* the text of a file: Junk (text JSON.parse rejects) or the JSON value    *)
(*   [k |-> "json", cacheSchemaVersion, lastFullSync, lastSynced, events]  *)
(* with cacheSchemaVersion a set of at most one number (empty: the field   *)
(* is missing) and the timestamps as ISO strings. An instant of the run    *)
(* clock n is the Date of day n \div MsPerDay, millisecond n % MsPerDay.    *)
(***************************************************************************)
SchemaVersion == 1

Junk == [k |-> "junk"]

\* Date.prototype.toISOString of a Date built from a property value, and of
\* an instant of the run clock
toISOString(date) == Iso(date.day, date.ms)
InstantToISOString(instant) == Iso(instant \div MsPerDay, instant % MsPerDay)

\* new Date(isoString) back to a Date, and to an instant of the run clock
DateOf(iso) == [day |-> NewDate(iso).day, ms |-> NewDate(iso).ms]
InstantOf(iso) == NewDate(iso).day * MsPerDay + NewDate(iso).ms

serializeEvent(event) ==
  IF event.kind = "timed"
  THEN [event EXCEPT !.start = toISOString(@),
                     !.end = toISOString(@),
                     !.createdAt = InstantToISOString(@),
                     !.updatedAt = InstantToISOString(@)]
  ELSE [event EXCEPT !.createdAt = InstantToISOString(@),
                     !.updatedAt = InstantToISOString(@)]

serializeState(state_) ==
  [k |-> "json",
   cacheSchemaVersion |-> {SchemaVersion},
   lastFullSync |-> InstantToISOString(state_.lastFullSync),
   lastSynced |-> InstantToISOString(state_.lastSynced),
   events |-> [id \in DOMAIN state_.events |->
                 serializeEvent(state_.events[id])]]

\* a rehydration that leaves the serialized fields as they are (the variant
\* C17 is measured against)
rehydrateEventRaw(event) == event

\* rehydrateState: entries of an unknown kind are dropped
rehydrateEvent(event) ==
  IF event.kind = "timed"
  THEN [event EXCEPT !.start = DateOf(@),
                     !.end = DateOf(@),
                     !.createdAt = InstantOf(@),
                     !.updatedAt = InstantOf(@)]
  ELSE [event EXCEPT !.createdAt = InstantOf(@),
                     !.updatedAt = InstantOf(@)]

rehydrateState(serialized) ==
  NotionIncrementalState(
    InstantOf(serialized.lastFullSync),
    InstantOf(serialized.lastSynced),
    [id \in {i \in DOMAIN serialized.events :
               serialized.events[i].kind \in {"timed", "all-day"}} |->
       rehydrateEvent(serialized.events[id])])

\* a version check that accepts every document (the variant C18 is measured
\* against)
VersionAccepted(serialized) == FALSE

\* serializedState.cacheSchemaVersion ?? 0 differs from SchemaVersion
VersionMismatch(serialized) ==
  (IF serialized.cacheSchemaVersion = {} THEN 0
   ELSE The(serialized.cacheSchemaVersion)) # SchemaVersion

\* a staleness check that evicts at the limit (the variant C20 is measured
\* against)
StaleAtLimit(maxCacheAgeMs_, now_, state_) ==
  maxCacheAgeMs_ # 0 /\ now_ - state_.lastFullSync >= maxCacheAgeMs_

\* maxCacheAgeMs !== 0 && Date.now() - lastFullSync.getTime() > maxCacheAgeMs
Stale(maxCacheAgeMs_, now_, state_) ==
  maxCacheAgeMs_ # 0 /\ now_ - state_.lastFullSync > maxCacheAgeMs_

RemoveFile(files_, cacheKey_) ==
  [key \in DOMAIN files_ \ {cacheKey_} |-> files_[key]]

\* get: what it returns and the directory it leaves; readable = FALSE is
\* readFileSync throwing
RepositoryGet(files_, cacheKey_, maxCacheAgeMs_, now_, readable) ==
  IF cacheKey_ \notin DOMAIN files_
  THEN [state |-> {}, files |-> files_]
  ELSE IF ~readable \/ files_[cacheKey_] = Junk
  THEN [state |-> {}, files |-> files_]
  ELSE IF VersionMismatch(files_[cacheKey_])
  THEN [state |-> {}, files |-> RemoveFile(files_, cacheKey_)]
  ELSE IF Stale(maxCacheAgeMs_, now_, rehydrateState(files_[cacheKey_]))
  THEN [state |-> {}, files |-> RemoveFile(files_, cacheKey_)]
  ELSE [state |-> {rehydrateState(files_[cacheKey_])}, files |-> files_]

\* set: the directory it leaves; writable = FALSE is writeFileSync throwing
\* (the error is logged and swallowed)
RepositorySet(files_, cacheKey_, state_, writable) ==
  IF writable THEN (cacheKey_ :> serializeState(state_)) @@ files_
  ELSE files_

(***************************************************************************)
(* State.                                                                  *)
(***************************************************************************)
VARIABLES
  now,                      \* Date.now() / new Date()
  db,                       \* the remote database: page id -> page
  edits,                    \* number of edits made to the database
  store,                    \* the storage collaborator: cache key -> state
  onPageError,              \* the hook of the Notion2ICal instance
  incrementalUpdateStorage, \* whether the instance has a storage
  pc,                       \* where the current convert call is
  runs,                     \* number of convert calls started
  fromDate, untilDate,      \* the optional bounds of the current call
  syncedAt, cacheKey, state, lastFullSync, eventsMap,
  cursor, seenCursors, pages,
  queries,                  \* the queries sent to the remote source
  responses,                \* the next cursors the remote source returned
  hookCalls, extracted, inserted,
  getCalls, setCalls,       \* calls of the storage's get / set in this call
  error,                    \* the error convert threw
  result,                   \* the calendar convert returned
  caught,                   \* the error a catch block of the call caught,
                            \* and the step of convert it was caught at
  errorMessage              \* the message of the WrapperError convert threw

\* Two convert calls in flight at once on one cache key, with a storage
\* collaborator that hands out the objects it holds ("reference", an
\* in-memory map) or copies of them ("copy", the file repository, which
\* serializes). Event maps are objects of the heap.
VARIABLES
  sharing,                  \* how the storage collaborator hands out states
  heap,                     \* object reference -> event map
  held,                     \* the collaborator: cache key -> state, whose
                            \* events field is a reference ("reference")
                            \* or the serialized map ("copy")
  run,                      \* the locals of each convert call in flight
  calls,                    \* number of convert calls started
  saved,                    \* the calls whose set answered, in order
  persisted                 \* the state the last set was given, by value

conc == <<sharing, heap, held, run, calls, saved, persisted>>

\* getCacheKey applied to two parameter lists.
VARIABLES
  params,                   \* the two parameter lists
  keys                      \* the strings getCacheKey digests for them

keyv == <<params, keys>>

\* The file repository as the storage collaborator of convert.
VARIABLES
  files,                    \* the directory: cache key -> document
  maxCacheAgeMs,            \* the option of the repository
  data,                     \* what the last get read, and when
  lastSet,                  \* the state the last set was given, and whether
                            \* the file was written
  syncs                     \* the calls that reached get, in order: their
                            \* key, their syncedAt and whether get
                            \* returned a state

filev == <<files, maxCacheAgeMs, data, lastSet, syncs>>

\* extractEventDetails applied to one record, and the constructor of the
\* file repository applied to one argument list.
VARIABLES
  record,                   \* the page and the description property name
  outcome,                  \* the Result extractEventDetails returned
  ctorArgs,                 \* maxCacheAgeMs and what directoryPath names
  repository,               \* the instance built, or the error thrown
  constructorOptions,       \* the options given to new Notion2ICal
  instance                  \* the Notion2ICal built, or the error thrown

purev == <<record, outcome, ctorArgs, repository, constructorOptions,
           instance>>
rest == <<keyv, filev, purev>>
others == <<conc, rest>>

env == <<now, db, edits>>
options == <<onPageError, incrementalUpdateStorage>>
local == <<pc, runs, fromDate, untilDate, syncedAt, cacheKey, state,
           lastFullSync, eventsMap, cursor, seenCursors, pages, queries,
           responses, hookCalls, extracted, inserted, getCalls, setCalls,
           error, result, caught, errorMessage>>
vars == <<env, options, store, local, others>>

Page(id, properties, created, edited) ==
  [id |-> id, created_time |-> created, last_edited_time |-> edited,
   properties |-> properties]

Runs == {1, 2}
Sharings == {"reference", "copy"}
Refs == Runs

IdleRun ==
  [pc |-> "idle", syncedAt |-> 0, state |-> {}, lastFullSync |-> 0,
   eventsMap |-> 0, pages |-> <<>>, loaded |-> EmptyMap, sawSaves |-> 0,
   error |-> "", result |-> {}]

\* no concurrent calls: the variables of the concurrent model at rest
ConcIdle ==
  /\ sharing = "copy"
  /\ heap = [ref \in Refs |-> EmptyMap]
  /\ held = EmptyMap
  /\ run = [r \in Runs |-> IdleRun]
  /\ calls = 0
  /\ saved = <<>>
  /\ persisted = {}

\* no file repository
FileIdle ==
  /\ files = EmptyMap
  /\ maxCacheAgeMs = 0
  /\ data = {}
  /\ lastSet = {}
  /\ syncs = <<>>

\* no extractEventDetails and no repository constructor under study
PureIdle ==
  /\ record = Null
  /\ outcome = {}
  /\ ctorArgs = Null
  /\ repository = {}
  /\ constructorOptions = Null
  /\ instance = {}

\* getCacheKey not under study
KeyIdle ==
  /\ params = <<>>
  /\ keys = <<>>

\* no convert call of the sequential model in flight
ConvertIdle ==
  /\ pc = "idle"
  /\ runs = 0
  /\ fromDate = {} /\ untilDate = {}
  /\ syncedAt = 0 /\ cacheKey = "" /\ state = {}
  /\ lastFullSync = 0 /\ eventsMap = EmptyMap
  /\ cursor = NoCursor /\ seenCursors = {} /\ pages = <<>>
  /\ queries = <<>> /\ responses = <<>>
  /\ hookCalls = <<>> /\ extracted = <<>> /\ inserted = <<>>
  /\ getCalls = 0 /\ setCalls = 0
  /\ error = "" /\ result = {}
  /\ caught = {} /\ errorMessage = ""

Init ==
  /\ now = 1
  /\ db = [id \in PageIds |-> Page(id, Properties("TimedA"), 0, 0)]
  /\ edits = 0
  /\ store = EmptyMap
  /\ onPageError \in Hooks
  /\ incrementalUpdateStorage \in BOOLEAN
  /\ pc = "idle"
  /\ runs = 0
  /\ fromDate = {} /\ untilDate = {}
  /\ syncedAt = 0 /\ cacheKey = "" /\ state = {}
  /\ lastFullSync = 0 /\ eventsMap = EmptyMap
  /\ cursor = NoCursor /\ seenCursors = {} /\ pages = <<>>
  /\ queries = <<>> /\ responses = <<>>
  /\ hookCalls = <<>> /\ extracted = <<>> /\ inserted = <<>>
  /\ getCalls = 0 /\ setCalls = 0
  /\ error = "" /\ result = {}
  /\ caught = {} /\ errorMessage = ""
  /\ ConcIdle
  /\ KeyIdle
  /\ FileIdle
  /\ PureIdle

(***************************************************************************)
(* The environment: time passes, and pages of the database are edited.     *)
(***************************************************************************)
Tick ==
  /\ now < MaxClock
  /\ now' = now + 1
  /\ UNCHANGED <<db, edits, options, others, store, local>>

EditPage(id, properties) ==
  /\ edits < MaxEdits
  /\ properties # db[id].properties
  /\ db' = [db EXCEPT ![id].properties = properties,
                      ![id].last_edited_time = now]
  /\ edits' = edits + 1
  /\ UNCHANGED <<now, options, others, store, local>>

(***************************************************************************)
(* convert.                                                                *)
(***************************************************************************)
\* a throw from inside the try block of fetchAllPages, which the catch
\* wraps (the variant C39 is measured against)
ThrowAsQueryFailure(name) ==
  /\ pc' = "thrown"
  /\ error' = "NotionQueryError"
  /\ caught' = {[at |-> pc, error |-> name]}
  /\ errorMessage' = NotionQueryError(name).message

Throw(name) ==
  /\ pc' = "thrown"
  /\ error' = name
  /\ caught' = {}
  /\ errorMessage' = ""

\* catch (error) { throw new <Wrapper>(error) }
ThrowWrapper(cause, wrapper) ==
  /\ pc' = "thrown"
  /\ error' = wrapper.name
  /\ caught' = {[at |-> pc, error |-> cause]}
  /\ errorMessage' = wrapper.message

NoThrow == UNCHANGED <<error, caught, errorMessage>>

\* The call, up to the first await: the range check, syncedAt and the cache
\* key. A behaviour makes at most limit calls.
ConvertStartWithin(limit, fromDate_, untilDate_) ==
  /\ pc \in {"idle", "returned", "thrown"}
  /\ runs < limit
  /\ runs' = runs + 1
  /\ fromDate' = fromDate_ /\ untilDate' = untilDate_
  /\ state' = {} /\ lastFullSync' = 0 /\ eventsMap' = EmptyMap
  /\ cursor' = NoCursor /\ seenCursors' = {} /\ pages' = <<>>
  /\ queries' = <<>> /\ responses' = <<>>
  /\ hookCalls' = <<>> /\ extracted' = <<>> /\ inserted' = <<>>
  /\ getCalls' = 0 /\ setCalls' = 0
  /\ result' = {}
  /\ IF InvalidRange(fromDate_, untilDate_)
     THEN /\ Throw("InvalidArgumentError")
          /\ syncedAt' = 0 /\ cacheKey' = ""
     ELSE /\ pc' = "getCachedState"
          /\ error' = "" /\ caught' = {} /\ errorMessage' = ""
          /\ syncedAt' = now
          /\ cacheKey' = getCacheKey(databaseId, titlePropertyName,
                           datePropertyName, descPropertyName, calendarName,
                           defaultDurationMs, fromDate_, untilDate_)
  /\ UNCHANGED <<env, options, others, store>>

ConvertStart(fromDate_, untilDate_) ==
  ConvertStartWithin(MaxRuns, fromDate_, untilDate_)

\* getCachedState and the two assignments that follow it in convert.
GetCachedState ==
  /\ pc = "getCachedState"
  /\ \/ /\ ~incrementalUpdateStorage
        /\ state' = {}
        /\ getCalls' = getCalls
        /\ pc' = "fetchAllPages"
        /\ NoThrow
     \/ /\ incrementalUpdateStorage
        /\ state' = StorageGet(store, cacheKey)
        /\ getCalls' = getCalls + 1
        /\ pc' = "fetchAllPages"
        /\ NoThrow
     \/ /\ incrementalUpdateStorage
        /\ state' = {}
        /\ getCalls' = getCalls + 1
        /\ \E cause \in Causes : ThrowWrapper(cause, StorageError(cause))
  /\ lastFullSync' = SeedLastFullSync(state', syncedAt)
  /\ eventsMap' = SeedEvents(state')
  /\ UNCHANGED <<env, options, others, store, runs, fromDate, untilDate, syncedAt,
                 cacheKey, cursor, seenCursors, pages, queries, responses,
                 hookCalls, extracted, inserted, setCalls, result>>

\* One iteration of the do-while loop of fetchAllPages, against a remote
\* source that hands out the given cursors.
FetchPageOf(cursors) ==
  /\ pc = "fetchAllPages"
  /\ IF CursorRepeated(seenCursors, cursor)
     THEN /\ Throw("PaginationError")
          /\ UNCHANGED <<seenCursors, cursor, pages, queries, responses>>
     ELSE /\ seenCursors' = seenCursors \cup {cursor}
          /\ queries' = Append(queries,
                          [database_id |-> databaseId, start_cursor |-> cursor,
                           page_size |-> pageSize,
                           on_or_after |-> fromDate,
                           on_or_before |-> untilDate,
                           last_edited_time |-> EditedSince(state)])
          /\ \/ \E resp \in ResponsesOf(db, EditedSince(state), cursors) :
                  /\ pages' = pages \o resp.results
                  /\ cursor' = resp.next_cursor
                  /\ responses' = Append(responses, resp.next_cursor)
                  /\ pc' = IF Truthy(resp.next_cursor)
                           THEN "fetchAllPages" ELSE "accumulateEvents"
                  /\ NoThrow
             \/ /\ \E cause \in Causes :
                     ThrowWrapper(cause, NotionQueryError(cause))
                /\ UNCHANGED <<cursor, pages, responses>>
  /\ UNCHANGED <<env, options, others, store, runs, fromDate, untilDate, syncedAt,
                 cacheKey, state, lastFullSync, eventsMap, hookCalls,
                 extracted, inserted, getCalls, setCalls, result>>

FetchPage == FetchPageOf(Cursors)

\* accumulateEvents over the fetched pages (synchronous).
AccumulateEvents ==
  /\ pc = "accumulateEvents"
  /\ LET acc == accumulateEvents(onPageError, pages,
                  [titlePropertyName |-> titlePropertyName,
                   datePropertyName |-> datePropertyName,
                   descPropertyName |-> descPropertyName,
                   defaultDurationMs |-> defaultDurationMs,
                   eventsMap |-> eventsMap])
     IN /\ eventsMap' = acc.eventsMap
        /\ hookCalls' = acc.hookCalls
        /\ extracted' = acc.extracted
        /\ inserted' = acc.inserted
        /\ pc' = AfterAccumulate(acc)
        /\ error' = IF AfterAccumulate(acc) = "thrown" /\ acc.thrown # {}
                    THEN The(acc.thrown).name ELSE error
        /\ UNCHANGED <<caught, errorMessage>>
  /\ UNCHANGED <<env, options, others, store, runs, fromDate, untilDate, syncedAt,
                 cacheKey, state, lastFullSync, cursor, seenCursors, pages,
                 queries, responses, getCalls, setCalls, result>>

\* saveCachedState with the state convert builds.
SaveCachedState ==
  /\ pc = "saveCachedState"
  /\ \/ /\ ~incrementalUpdateStorage
        /\ UNCHANGED <<store, setCalls>>
        /\ NoThrow
        /\ pc' = "buildCalendar"
     \/ /\ incrementalUpdateStorage
        /\ store' = StorageSet(store, cacheKey,
                      StateToSave(syncedAt, lastFullSync, eventsMap))
        /\ setCalls' = setCalls + 1
        /\ pc' = "buildCalendar"
        /\ NoThrow
     \/ /\ incrementalUpdateStorage
        /\ store' = store
        /\ setCalls' = setCalls + 1
        /\ \E cause \in Causes : ThrowWrapper(cause, StorageError(cause))
  /\ UNCHANGED <<env, options, others, runs, fromDate, untilDate, syncedAt, cacheKey,
                 state, lastFullSync, eventsMap, cursor, seenCursors, pages,
                 queries, responses, hookCalls, extracted, inserted, getCalls,
                 result>>

\* buildCalendar and the return of convert; the encoder accepts the list or
\* reports an error.
BuildCalendar ==
  /\ pc = "buildCalendar"
  /\ \/ /\ result' = {buildCalendar(eventsMap, calendarName)}
        /\ pc' = "returned"
        /\ NoThrow
     \/ /\ result' = result
        /\ \E cause \in Causes :
             ThrowWrapper(cause, CalendarBuildError(cause))
  /\ UNCHANGED <<env, options, others, store, runs, fromDate, untilDate, syncedAt,
                 cacheKey, state, lastFullSync, eventsMap, cursor,
                 seenCursors, pages, queries, responses, hookCalls, extracted,
                 inserted, getCalls, setCalls>>

Next ==
  \/ Tick
  \/ \E id \in PageIds, shape \in PageShapes :
       EditPage(id, Properties(shape))
  \/ \E fromDate_ \in FromDates, untilDate_ \in UntilDates :
       ConvertStart(fromDate_, untilDate_)
  \/ GetCachedState
  \/ FetchPage
  \/ AccumulateEvents
  \/ SaveCachedState
  \/ BuildCalendar

Spec == Init /\ [][Next]_vars

(***************************************************************************)
(* Concurrent convert calls on one cache key. Each call runs the steps of  *)
(* convert between its awaits; accumulateEvents has no await and is one    *)
(* step. The query loop of fetchAllPages touches only locals of the call   *)
(* and is one step here: it returns matching pages in some order.          *)
(***************************************************************************)
ConcKey ==
  getCacheKey(databaseId, titlePropertyName, datePropertyName, descPropertyName, calendarName, defaultDurationMs, Undefined, Undefined)

\* the state the collaborator holds, with the event map by value
HeldValue ==
  IF sharing = "reference"
  THEN {[st EXCEPT !.events = heap[st.events]] :
          st \in StorageGet(held, ConcKey)}
  ELSE StorageGet(held, ConcKey)

\* the lists of pages a walk can return: matching pages, none twice
Fetched(pagesOfDb, editedSince) ==
  LET ids == Matching(pagesOfDb, editedSince)
  IN {[i \in DOMAIN order |-> pagesOfDb[order[i]]] :
        order \in {o \in UNION {[1..n -> ids] : n \in 0..Cardinality(ids)} :
                     \A i, j \in DOMAIN o : i # j => o[i] # o[j]}}

\* The storage starts empty, or holds what an earlier first call of run 1
\* at instant 1 saved after fetching page p1.
FirstMap ==
  accumulateEvents("default",
    <<Page("p1", Properties("TimedA"), 0, 0)>>,
    [titlePropertyName |-> titlePropertyName,
     datePropertyName |-> datePropertyName,
     descPropertyName |-> descPropertyName,
     defaultDurationMs |-> defaultDurationMs,
     eventsMap |-> EmptyMap]).eventsMap

ConcInit ==
  /\ now = 1
  /\ db = [id \in PageIds |-> Page(id, Properties("TimedA"), 0, 0)]
  /\ edits = 0
  /\ store = EmptyMap
  /\ onPageError \in Hooks
  /\ incrementalUpdateStorage = TRUE
  /\ ConvertIdle
  /\ sharing \in Sharings
  /\ \E seeded \in BOOLEAN :
       /\ heap = [ref \in Refs |->
                    IF seeded /\ sharing = "reference" /\ ref = 1
                    THEN FirstMap ELSE EmptyMap]
       /\ held = IF seeded
                 THEN StorageSet(EmptyMap, ConcKey,
                        StateToSave(1, 1, IF sharing = "reference"
                                          THEN 1 ELSE FirstMap))
                 ELSE EmptyMap
       /\ persisted = IF seeded THEN {StateToSave(1, 1, FirstMap)} ELSE {}
       /\ saved = IF seeded THEN <<1>> ELSE <<>>
  /\ run = [r \in Runs |-> IdleRun]
  /\ calls = 0
  /\ KeyIdle
  /\ FileIdle
  /\ PureIdle

\* convert up to the first await (no date bounds given)
ConcStart(r) ==
  /\ run[r].pc \in {"idle", "returned", "thrown"}
  /\ calls < MaxRuns
  /\ calls' = calls + 1
  /\ run' = [run EXCEPT ![r] = [IdleRun EXCEPT !.pc = "getCachedState",
                                               !.syncedAt = now]]
  /\ UNCHANGED <<env, options, store, local, rest, sharing, heap, held, saved,
                 persisted>>

\* getCachedState answers; const eventsMap = state?.events ?? {}
ConcGetCachedState(r) ==
  /\ run[r].pc = "getCachedState"
  /\ LET got == StorageGet(held, ConcKey)
         state_ == IF sharing = "reference" THEN got
                   ELSE {[st EXCEPT !.events = r] : st \in got}
         ref == IF state_ = {} THEN r ELSE SeedEvents(state_)
     IN /\ heap' = IF got = {} THEN [heap EXCEPT ![r] = EmptyMap]
                   ELSE IF sharing = "reference" THEN heap
                   ELSE [heap EXCEPT ![r] = The(got).events]
        /\ run' = [run EXCEPT
                     ![r].state = state_,
                     ![r].lastFullSync = SeedLastFullSync(state_, run[r].syncedAt),
                     ![r].eventsMap = ref,
                     ![r].loaded = heap'[ref],
                     ![r].sawSaves = Len(saved),
                     ![r].pc = "fetchAllPages"]
  /\ UNCHANGED <<env, options, store, local, rest, sharing, held, calls, saved,
                 persisted>>

ConcFetchAllPages(r) ==
  /\ run[r].pc = "fetchAllPages"
  /\ \E pages_ \in Fetched(db, EditedSince(run[r].state)) :
       run' = [run EXCEPT ![r].pages = pages_, ![r].pc = "accumulateEvents"]
  /\ UNCHANGED <<env, options, store, local, rest, sharing, heap, held, calls,
                 saved, persisted>>

ConcAccumulateEvents(r) ==
  /\ run[r].pc = "accumulateEvents"
  /\ LET acc == accumulateEvents(onPageError, run[r].pages,
                  [titlePropertyName |-> titlePropertyName,
                   datePropertyName |-> datePropertyName,
                   descPropertyName |-> descPropertyName,
                   defaultDurationMs |-> defaultDurationMs,
                   eventsMap |-> heap[run[r].eventsMap]])
     IN /\ heap' = [heap EXCEPT ![run[r].eventsMap] = acc.eventsMap]
        /\ run' = [run EXCEPT
                     ![r].pc = AfterAccumulate(acc),
                     ![r].error = IF acc.thrown # {}
                                  THEN The(acc.thrown).name ELSE ""]
  /\ UNCHANGED <<env, options, store, local, rest, sharing, held, calls, saved,
                 persisted>>

\* saveCachedState answers: a "reference" collaborator keeps the object it
\* is given, a "copy" collaborator keeps a serialized copy
ConcSaveCachedState(r) ==
  /\ run[r].pc = "saveCachedState"
  /\ LET given == StateToSave(run[r].syncedAt, run[r].lastFullSync,
                              run[r].eventsMap)
     IN /\ held' = StorageSet(held, ConcKey,
                      IF sharing = "reference" THEN given
                      ELSE [given EXCEPT !.events = heap[run[r].eventsMap]])
        /\ persisted' = {[given EXCEPT !.events = heap[run[r].eventsMap]]}
  /\ saved' = Append(saved, r)
  /\ run' = [run EXCEPT ![r].pc = "buildCalendar"]
  /\ UNCHANGED <<env, options, store, local, rest, sharing, heap, calls>>

ConcBuildCalendar(r) ==
  /\ run[r].pc = "buildCalendar"
  /\ run' = [run EXCEPT
               ![r].result = {buildCalendar(heap[run[r].eventsMap], calendarName)},
               ![r].pc = "returned"]
  /\ UNCHANGED <<env, options, store, local, rest, sharing, heap, held, calls,
                 saved, persisted>>

ConcNext ==
  \/ \E id \in PageIds : EditPage(id, Properties("AllDayB"))
  \/ \E r \in Runs : ConcStart(r)
  \/ \E r \in Runs : ConcGetCachedState(r)
  \/ \E r \in Runs : ConcFetchAllPages(r)
  \/ \E r \in Runs : ConcAccumulateEvents(r)
  \/ \E r \in Runs : ConcSaveCachedState(r)
  \/ \E r \in Runs : ConcBuildCalendar(r)

ConcSpec == ConcInit /\ [][ConcNext]_vars

(***************************************************************************)
(* getCacheKey as a function of its parameters: two parameter lists drawn  *)
(* from small sets (names with and without the "-" separator, description  *)
(* absent, empty or given, dates absent or given), and the strings the     *)
(* digest is taken of.                                                     *)
(***************************************************************************)
KeyParams ==
  [databaseId : {"a", "a-b"},
   titlePropertyName : {"c", "b-c"},
   datePropertyName : {"Date"},
   descPropertyName : {Undefined, Some(""), Some("Description")},
   calendarName : {"Test Calendar"},
   defaultDurationMs : {defaultDurationMs},
   fromDate : {Undefined, Some(1)},
   untilDate : {Undefined, Some(1)}]

KeyOf(p) ==
  getCacheKey(p.databaseId, p.titlePropertyName, p.datePropertyName, p.descPropertyName, p.calendarName, p.defaultDurationMs, p.fromDate, p.untilDate)

KeyInit ==
  /\ now = 1
  /\ db = [id \in PageIds |-> Page(id, Properties("TimedA"), 0, 0)]
  /\ edits = 0
  /\ store = EmptyMap
  /\ onPageError = "default"
  /\ incrementalUpdateStorage = FALSE
  /\ ConvertIdle
  /\ ConcIdle
  /\ params \in KeyParams \X KeyParams
  /\ keys = <<>>
  /\ FileIdle
  /\ PureIdle

GetCacheKeys ==
  /\ keys = <<>>
  /\ keys' = <<KeyOf(params[1]), KeyOf(params[2])>>
  /\ UNCHANGED <<env, options, store, local, conc, filev, purev, params>>

KeyNext == GetCacheKeys

KeySpec == KeyInit /\ [][KeyNext]_vars

(***************************************************************************)
(* convert with the file repository as its storage. The directory starts   *)
(* empty or with a file for the key left by someone else: text that is not *)
(* JSON, or a snapshot of another schema version (no version field, or a   *)
(* later version). The clock starts at 0.                                  *)
(***************************************************************************)
FileKey ==
  getCacheKey(databaseId, titlePropertyName, datePropertyName, descPropertyName, calendarName, defaultDurationMs, Undefined, Some(1))

ForeignSnapshot(version) ==
  [serializeState(StateToSave(0, 0, FirstMap))
     EXCEPT !.cacheSchemaVersion = version]

InitialFiles ==
  {EmptyMap} \cup
  {(FileKey :> doc) :
     doc \in {Junk, ForeignSnapshot({}), ForeignSnapshot({SchemaVersion + 1})}}

FileInit ==
  /\ now = 0
  /\ db = [id \in PageIds |->
             Page(id, Properties(IF id = "p1" THEN "TimedA" ELSE "AllDayB"),
                  0, 0)]
  /\ edits = 0
  /\ store = EmptyMap
  /\ onPageError = "default"
  /\ incrementalUpdateStorage = TRUE
  /\ ConvertIdle
  /\ ConcIdle
  /\ KeyIdle
  /\ files \in InitialFiles
  /\ maxCacheAgeMs \in {0, 1}
  /\ data = {}
  /\ lastSet = {}
  /\ syncs = <<>>
  /\ PureIdle

\* getCachedState with the file repository (its get never raises), and the
\* two assignments that follow it in convert
FileGetCachedState ==
  /\ pc = "getCachedState"
  /\ \E readable \in BOOLEAN :
       LET got == RepositoryGet(files, cacheKey, maxCacheAgeMs, now, readable)
       IN /\ state' = got.state
          /\ files' = got.files
          /\ data' = {[document |->
                          IF cacheKey \in DOMAIN files /\ readable
                          THEN {files[cacheKey]} ELSE {},
                        readAt |-> now]}
  /\ syncs' = Append(syncs, [syncedAt |-> syncedAt, cacheKey |-> cacheKey,
                             found |-> state' # {}])
  /\ getCalls' = getCalls + 1
  /\ pc' = "fetchAllPages"
  /\ NoThrow
  /\ lastFullSync' = SeedLastFullSync(state', syncedAt)
  /\ eventsMap' = SeedEvents(state')
  /\ UNCHANGED <<env, options, store, conc, keyv, purev, maxCacheAgeMs, lastSet,
                 runs, fromDate, untilDate, syncedAt,
                 cacheKey, cursor, seenCursors, pages, queries, responses,
                 hookCalls, extracted, inserted, setCalls, result>>

\* saveCachedState with the file repository (its set never raises)
FileSaveCachedState ==
  /\ pc = "saveCachedState"
  /\ \E writable \in BOOLEAN :
       LET state_ == StateToSave(syncedAt, lastFullSync, eventsMap)
       IN /\ files' = RepositorySet(files, cacheKey, state_, writable)
          /\ lastSet' = {[state |-> state_, wrote |-> writable]}
  /\ setCalls' = setCalls + 1
  /\ pc' = "buildCalendar"
  /\ NoThrow
  /\ UNCHANGED <<env, options, store, conc, keyv, purev, maxCacheAgeMs, data,
                 syncs, runs, fromDate, untilDate, syncedAt, cacheKey,
                 state, lastFullSync, eventsMap, cursor, seenCursors, pages,
                 queries, responses, hookCalls, extracted, inserted, getCalls,
                 result>>

FileNext ==
  \/ Tick
  \/ \E fromDate_ \in FromDates, untilDate_ \in UntilDates :
       ConvertStart(fromDate_, untilDate_)
  \/ FileGetCachedState
  \/ FetchPage
  \/ AccumulateEvents
  \/ FileSaveCachedState
  \/ BuildCalendar

FileSpec == FileInit /\ [][FileNext]_vars

(***************************************************************************)
(* A longer sequence of convert calls on one cache key with a file         *)
(* repository that evicts by age: the directory starts empty, the          *)
(* repository has maxCacheAgeMs = 1, and every call has the same bounds.   *)
(***************************************************************************)
AgeRuns == MaxRuns + 1

AgeInit ==
  /\ now = 0
  /\ db = [id \in PageIds |->
             Page(id, Properties(IF id = "p1" THEN "TimedA" ELSE "AllDayB"),
                  0, 0)]
  /\ edits = 0
  /\ store = EmptyMap
  /\ onPageError = "default"
  /\ incrementalUpdateStorage = TRUE
  /\ ConvertIdle
  /\ ConcIdle
  /\ KeyIdle
  /\ files = EmptyMap
  /\ maxCacheAgeMs = 1
  /\ data = {}
  /\ lastSet = {}
  /\ syncs = <<>>
  /\ PureIdle

AgeConvertStart == ConvertStartWithin(AgeRuns, Undefined, Some(1))

AgeNext ==
  \/ Tick
  \/ AgeConvertStart
  \/ FileGetCachedState
  \/ FetchPage
  \/ AccumulateEvents
  \/ FileSaveCachedState
  \/ BuildCalendar

AgeSpec == AgeInit /\ [][AgeNext]_vars

(***************************************************************************)
(* extractEventDetails as a function of the record: every combination of a *)
(* title, a date and a description property that is absent, of another     *)
(* kind, or of the right kind, with the raw date strings below, and a      *)
(* description property name that is undefined, empty or "Description".    *)
(***************************************************************************)
NumberProperty ==
  [date |-> Null, type |-> "number", rich_text |-> <<>>, title |-> <<>>]

EmptyString == [k |-> "empty"]
Unparsable(hasT) == [k |-> "junk", hasT |-> hasT]

\* date-only strings: an ordinary day, the ends of February in a leap and a
\* common year, the end of a year, a day of the year 50, and 31 February
DateOnlyStrings ==
  {Ymd(2025, 8, 30), Ymd(2025, 8, 31), Ymd(2024, 2, 28), Ymd(2024, 2, 29),
   Ymd(2023, 2, 28), Ymd(2024, 12, 31), Ymd(50, 1, 1), Ymd(2024, 2, 31)}

\* timestamps: 10:00 of a day, and the last millisecond of the day before
Timestamps == {Iso(20300, 36000000), Iso(20299, MsPerDay - 1)}

RawStarts ==
  {Null, EmptyString, Unparsable(TRUE), Unparsable(FALSE)} \cup DateOnlyStrings \cup Timestamps
RawEnds == RawStarts

TitleOptions ==
  {{}, {NumberProperty}, {TitleProperty(<<"A">>)}, {TitleProperty(<<>>)}}
DateOptions ==
  {{}, {NumberProperty}, {EmptyDateProperty("NoStart")}}
    \cup {{DateProperty(start, end)} : start \in RawStarts, end \in RawEnds}
DescriptionOptions ==
  {{}, {NumberProperty}, {RichTextProperty(<<"a">>)}, {RichTextProperty(<<>>)}}
DescriptionNames == {Undefined, Some(""), descPropertyName}

PropertiesOf(title, date, description) ==
  LET option(n) == CASE n = titlePropertyName -> title
                     [] n = datePropertyName -> date
                     [] OTHER -> description
      names == {n \in {titlePropertyName, datePropertyName,
                        The(descPropertyName)} : option(n) # {}}
  IN [n \in names |-> The(option(n))]

ExtractInit ==
  /\ now = 1
  /\ db = [id \in PageIds |-> Page(id, Properties("TimedA"), 0, 0)]
  /\ edits = 0
  /\ store = EmptyMap
  /\ onPageError = "default"
  /\ incrementalUpdateStorage = FALSE
  /\ ConvertIdle
  /\ ConcIdle
  /\ KeyIdle
  /\ FileIdle
  /\ record \in
       {[descriptionPropertyName |-> name,
         page |-> Page("p1", PropertiesOf(title, date, description), 0, 1)] :
          title \in TitleOptions, date \in DateOptions,
          description \in DescriptionOptions, name \in DescriptionNames}
  /\ outcome = {}
  /\ ctorArgs = Null
  /\ repository = {}
  /\ constructorOptions = Null
  /\ instance = {}

ExtractEventDetails ==
  /\ outcome = {}
  /\ outcome' = {extractEventDetails(titlePropertyName, datePropertyName,
                    record.descriptionPropertyName, defaultDurationMs,
                    record.page)}
  /\ UNCHANGED <<env, options, store, local, conc, keyv, filev, record,
                 ctorArgs, repository, constructorOptions, instance>>

ExtractNext == ExtractEventDetails

ExtractSpec == ExtractInit /\ [][ExtractNext]_vars

(***************************************************************************)
(* fetchAllPages on its own: one walk, with or without an editedSince      *)
(* bound, against a remote source that hands out more cursors (the empty   *)
(* string among them). Each query is answered or fails; the loop goes on   *)
(* as long as it can, which is the fairness of the walk.                   *)
(***************************************************************************)
WalkCursors == {"c1", "c2", ""}

WalkInit ==
  /\ now = 1
  /\ db = [id \in PageIds |-> Page(id, Properties("TimedA"), 0, 0)]
  /\ edits = 0
  /\ onPageError = "default"
  /\ incrementalUpdateStorage \in BOOLEAN
  /\ state = (IF incrementalUpdateStorage
              THEN {NotionIncrementalState(0, 0, EmptyMap)} ELSE {})
  /\ store = (IF incrementalUpdateStorage
              THEN (FileKey :> NotionIncrementalState(0, 0, EmptyMap))
              ELSE EmptyMap)
  /\ pc = "fetchAllPages"
  /\ runs = 1
  /\ fromDate = Undefined /\ untilDate = Some(1)
  /\ syncedAt = now /\ cacheKey = FileKey
  /\ lastFullSync = SeedLastFullSync(state, syncedAt)
  /\ eventsMap = SeedEvents(state)
  /\ cursor = NoCursor /\ seenCursors = {} /\ pages = <<>>
  /\ queries = <<>> /\ responses = <<>>
  /\ hookCalls = <<>> /\ extracted = <<>> /\ inserted = <<>>
  /\ getCalls = (IF incrementalUpdateStorage THEN 1 ELSE 0) /\ setCalls = 0
  /\ error = "" /\ result = {}
  /\ caught = {} /\ errorMessage = ""
  /\ ConcIdle
  /\ KeyIdle
  /\ FileIdle
  /\ PureIdle

WalkFetchPage == FetchPageOf(WalkCursors)

WalkNext == WalkFetchPage

WalkSpec == WalkInit /\ [][WalkNext]_vars /\ WF_vars(WalkNext)

(***************************************************************************)
(* The constructor of IncrementalStorageFileRepository as a function of    *)
(* maxCacheAgeMs and of what directoryPath names in the file system:       *)
(* nothing, a regular file, or a directory.                                *)
(***************************************************************************)
InvalidArgumentError(argumentName, reason) ==
  [name |-> "InvalidArgumentError", argumentName |-> argumentName,
   reason |-> reason]

PathKinds == {"missing", "file", "directory"}

\* a check that rejects zero as well (the variant C28 is measured against)
NonPositiveAge(maxCacheAgeMs_) == maxCacheAgeMs_ <= 0

\* maxCacheAgeMs < 0
NegativeAge(maxCacheAgeMs_) == maxCacheAgeMs_ < 0

IncrementalStorageFileRepository(directoryPath, maxCacheAgeMs_) ==
  IF NegativeAge(maxCacheAgeMs_)
  THEN Failure(InvalidArgumentError("maxCacheAgeMs",
                 "must be greater than or equal to 0"))
  ELSE IF directoryPath = "missing"
  THEN Failure(InvalidArgumentError("directoryPath", "folder does not exist"))
  ELSE IF directoryPath # "directory"
  THEN Failure(InvalidArgumentError("directoryPath", "must be a directory"))
  ELSE Success([directoryPath |-> directoryPath,
                maxCacheAgeMs |-> maxCacheAgeMs_])

CtorInit ==
  /\ now = 1
  /\ db = [id \in PageIds |-> Page(id, Properties("TimedA"), 0, 0)]
  /\ edits = 0
  /\ store = EmptyMap
  /\ onPageError = "default"
  /\ incrementalUpdateStorage = FALSE
  /\ ConvertIdle
  /\ ConcIdle
  /\ KeyIdle
  /\ FileIdle
  /\ record = Null
  /\ outcome = {}
  /\ ctorArgs \in [directoryPath : PathKinds,
                    maxCacheAgeMs : (0 - AgeBound) .. AgeBound]
  /\ repository = {}
  /\ constructorOptions = Null
  /\ instance = {}

Construct ==
  /\ repository = {}
  /\ repository' = {IncrementalStorageFileRepository(ctorArgs.directoryPath,
                       ctorArgs.maxCacheAgeMs)}
  /\ UNCHANGED <<env, options, store, local, conc, keyv, filev, record,
                 outcome, ctorArgs, constructorOptions, instance>>

CtorNext == Construct

CtorSpec == CtorInit /\ [][CtorNext]_vars

(***************************************************************************)
(* The constructor of Notion2ICal as a function of its options: a client   *)
(* that is given or not, a pageSize that is missing, NaN or a number, a    *)
(* hook, a logger and a storage that are given or not.                     *)
(***************************************************************************)
NotANumber == [k |-> "NaN"]
Number(n) == [k |-> "number", n |-> n]

\* JavaScript truthiness of an optional number: undefined, NaN and 0 are
\* falsy
FalsyNumber(opt) ==
  \/ opt = {}
  \/ The(opt).k = "NaN"
  \/ The(opt).k = "number" /\ The(opt).n = 0

PageSizes ==
  {Undefined, Some(NotANumber)}
    \cup {Some(Number(n)) : n \in {0 - 2, 0 - 1, 0, 1, 2, 100}}

Notion2ICalOptions ==
  [pageSize : PageSizes,
   onPageError : {Undefined} \cup {Some(hook) : hook \in Hooks},
   incrementalUpdateStorage : {Undefined, Some("storage")},
   notionClient : {Undefined, Some("client")},
   logger : {Undefined, Some("logger")}]

Notion2ICal(options_) ==
  LET notionClient == options_.notionClient
      \* options.pageSize || 100
      pageSize_ == IF FalsyNumber(options_.pageSize) THEN Number(100)
                   ELSE The(options_.pageSize)
      \* options.onPageError ?? the logging hook
      onPageError_ == IF options_.onPageError = {} THEN "default"
                      ELSE The(options_.onPageError)
  IN IF notionClient = {}
     THEN Failure(InvalidArgumentError("notionClient", "is required"))
     ELSE IF pageSize_.n <= 0
     THEN Failure(InvalidArgumentError("pageSize",
                    "must be a positive integer"))
     ELSE Success([pageSize |-> pageSize_.n,
                   onPageError |-> onPageError_,
                   incrementalUpdateStorage |->
                     options_.incrementalUpdateStorage,
                   notionClient |-> notionClient,
                   logger |-> options_.logger])

NewInit ==
  /\ now = 1
  /\ db = [id \in PageIds |-> Page(id, Properties("TimedA"), 0, 0)]
  /\ edits = 0
  /\ store = EmptyMap
  /\ onPageError = "default"
  /\ incrementalUpdateStorage = FALSE
  /\ ConvertIdle
  /\ ConcIdle
  /\ KeyIdle
  /\ FileIdle
  /\ record = Null
  /\ outcome = {}
  /\ ctorArgs = Null
  /\ repository = {}
  /\ constructorOptions \in Notion2ICalOptions
  /\ instance = {}

New ==
  /\ instance = {}
  /\ instance' = {Notion2ICal(constructorOptions)}
  /\ UNCHANGED <<env, options, store, local, conc, keyv, filev, record,
                 outcome, ctorArgs, repository, constructorOptions>>

NewNext == New

NewSpec == NewInit /\ [][NewNext]_vars

(***************************************************************************)
(* Vocabulary of the properties.                                           *)
(***************************************************************************)
Range(seq) == {seq[i] : i \in DOMAIN seq}

PerRecordErrors ==
  {"MissingPropertyError", "InvalidPropertyTypeError", "EmptyDateError",
   "DateValueError", "DuplicateEventError"}

\* what the extractor makes of the i-th fetched page
Extraction(i) ==
  extractEventDetails(titlePropertyName, datePropertyName, descPropertyName,
                      defaultDurationMs, pages[i])

FetchedIds == {pages[i].id : i \in DOMAIN pages}

\* the event map convert started from (the loaded state's, or empty)
PriorEvents == IF state = {} THEN EmptyMap ELSE The(state).events

\* set was called and answered in this call
Persisted ==
  /\ incrementalUpdateStorage
  /\ \/ pc \in {"buildCalendar", "returned"}
     \/ pc = "thrown" /\ error = "CalendarBuildError"

\* the loop of accumulateEvents ran to its end
AccumulateDone ==
  \/ pc \in {"saveCachedState", "buildCalendar", "returned"}
  \/ pc = "thrown" /\ error = "CalendarBuildError"
  \/ pc = "thrown" /\ error = "StorageError" /\ setCalls = 1

\* the hook threw in this call
HookThrew ==
  /\ pc = "thrown"
  /\ error \in PerRecordErrors

\* the indices of the fetched pages the loop got to
Handled ==
  IF AccumulateDone THEN DOMAIN pages
  ELSE IF HookThrew /\ hookCalls # <<>>
       THEN 1..hookCalls[Len(hookCalls)].at
       ELSE {}

HookCallsAt(i) == {k \in DOMAIN hookCalls : hookCalls[k].at = i}

\* the identifier of page i was in the working map when the loop got to it
SeenBefore(i) ==
  \/ pages[i].id \in DOMAIN PriorEvents
  \/ \E j \in Range(inserted) : j < i /\ pages[j].id = pages[i].id

\* the entry the working map first got for an identifier
FirstEntry(id) ==
  IF id \in DOMAIN PriorEvents
  THEN PriorEvents[id]
  ELSE LET first == CHOOSE j \in Range(inserted) :
                      /\ pages[j].id = id
                      /\ \A k \in Range(inserted) :
                           pages[k].id = id => j <= k
       IN Extraction(first).value

(***************************************************************************)
(* C1. In an incremental run, a fetched record whose last-modified instant *)
(* advanced since the event held for it in the carried-forward map appears *)
(* in the persisted state and in the returned calendar with its edited     *)
(* values. The code rejects the record as a duplicate and keeps the old    *)
(* event, so this statement is violated.                                   *)
(***************************************************************************)
C1_EditedRecordReflected ==
  (pc = "returned" /\ incrementalUpdateStorage /\ state # {}) =>
    \A i \in DOMAIN pages :
      ( /\ pages[i].id \in DOMAIN PriorEvents
        /\ pages[i].last_edited_time > PriorEvents[pages[i].id].updatedAt
        /\ Extraction(i).ok )
      => /\ store[cacheKey].events[pages[i].id] = Extraction(i).value
         /\ The(result).events[pages[i].id]
              = EventAttributes(Extraction(i).value)

(***************************************************************************)
(* C2. In an incremental run every event of the prior state's map whose    *)
(* record the fetch did not return stays in the working map unchanged, is  *)
(* in the persisted state unchanged once set has answered, and is in the   *)
(* returned calendar.                                                      *)
(***************************************************************************)
C2_UnfetchedEventsRetained ==
  (state # {} /\ pc # "getCachedState") =>
    \A id \in DOMAIN PriorEvents \ FetchedIds :
      /\ id \in DOMAIN eventsMap
      /\ eventsMap[id] = PriorEvents[id]
      /\ Persisted =>
           /\ id \in DOMAIN store[cacheKey].events
           /\ store[cacheKey].events[id] = PriorEvents[id]
      /\ pc = "returned" =>
           /\ id \in DOMAIN The(result).events
           /\ The(result).events[id] = EventAttributes(PriorEvents[id])

C2_Witness ==
  /\ pc = "returned"
  /\ incrementalUpdateStorage
  /\ state # {}
  /\ inserted # <<>>
  /\ DOMAIN PriorEvents \ FetchedIds # {}

(***************************************************************************)
(* C3. A run that loaded a prior state writes back the lastFullSync it     *)
(* loaded. The code passes (syncedAt, lastFullSync) to a constructor that  *)
(* takes (lastFullSync, lastSynced), so this statement is violated.        *)
(***************************************************************************)
C3_LastFullSyncCarried ==
  (Persisted /\ state # {}) =>
    store[cacheKey].lastFullSync = The(state).lastFullSync

(***************************************************************************)
(* C4. A run that persists writes lastSynced = the instant captured at its *)
(* start, and a run that loaded a state queries with that state's          *)
(* lastSynced as the lower bound of the modification time. The first half  *)
(* is violated by the code (see C3).                                       *)
(***************************************************************************)
C4_LastSyncedIsRunStart ==
  /\ Persisted => store[cacheKey].lastSynced = syncedAt
  /\ \A q \in DOMAIN queries :
       queries[q].last_edited_time =
         (IF state = {} THEN {} ELSE {The(state).lastSynced})

(***************************************************************************)
(* C5. A fetched record whose identifier is already in the working map     *)
(* (from the prior state or from an earlier record of the run) goes to the *)
(* hook once, with a duplicate-event error; the extractor is not run on    *)
(* it; the entry the map first got for the identifier is still there.      *)
(***************************************************************************)
C5_DuplicateRejected ==
  \A i \in Handled :
    SeenBefore(i) =>
      /\ Cardinality(HookCallsAt(i)) = 1
      /\ \A k \in HookCallsAt(i) :
           /\ hookCalls[k].error = DuplicateEventError(pages[i].id)
           /\ hookCalls[k].pageId = pages[i].id
      /\ i \notin Range(extracted)
      /\ pages[i].id \in DOMAIN eventsMap
      /\ eventsMap[pages[i].id] = FirstEntry(pages[i].id)

C5_Witness ==
  /\ AccumulateDone
  /\ \E i, j \in Handled :
       /\ i < j
       /\ pages[i].id = pages[j].id
       /\ i \in Range(inserted)
       /\ pages[i] # pages[j]

(***************************************************************************)
(* C6. If the hook raises for a record, convert aborts with that error:    *)
(* it is the last call of the hook, set is not called, the stored state is *)
(* the one the run loaded, and no calendar is returned.                    *)
(***************************************************************************)
C6_HookThrowAborts ==
  \A k \in DOMAIN hookCalls :
    onPageErrorThrows(onPageError, hookCalls[k].error) =>
      /\ k = Len(hookCalls)
      /\ pc = "thrown"
      /\ error = hookCalls[k].error.name
      /\ setCalls = 0
      /\ StorageGet(store, cacheKey) = state
      /\ result = {}

C6_Witness ==
  /\ incrementalUpdateStorage
  /\ HookThrew
  /\ state # {}
  /\ hookCalls # <<>>
  /\ hookCalls[Len(hookCalls)].at < Len(pages)

(***************************************************************************)
(* C7. With no hook supplied, no per-record error aborts convert: every    *)
(* fetched record is handled, and the returned calendar holds the carried  *)
(* events and exactly the fetched records that extract successfully (none  *)
(* if all fail).                                                           *)
(***************************************************************************)
C7_DefaultHookSkips ==
  onPageError = "default" =>
    /\ error \notin PerRecordErrors
    /\ (hookCalls # <<>> \/ extracted # <<>>) => AccumulateDone
    /\ pc = "returned" =>
         /\ DOMAIN The(result).events =
              DOMAIN PriorEvents
                \cup {pages[i].id : i \in {j \in DOMAIN pages : Extraction(j).ok}}
         /\ \A i \in DOMAIN pages :
              (Extraction(i).ok /\ ~SeenBefore(i)) =>
                The(result).events[pages[i].id]
                  = EventAttributes(Extraction(i).value)

C7_Witness ==
  /\ onPageError = "default"
  /\ pc = "returned"
  /\ state = {}
  /\ \E i, j \in DOMAIN pages :
       i < j /\ ~Extraction(i).ok /\ Extraction(j).ok

(***************************************************************************)
(* C8. Every fetched record the loop gets to has exactly one outcome: its  *)
(* event is inserted into the working map, or the hook is called exactly   *)
(* once with an error and that record; both happen in arrival order, and   *)
(* a run that is not aborted by the hook gets to every record.             *)
(***************************************************************************)
C8_OneOutcomePerRecord ==
  /\ \A i \in Handled :
       /\ (i \in Range(inserted)) # (HookCallsAt(i) # {})
       /\ Cardinality(HookCallsAt(i)) <= 1
       /\ Cardinality({k \in DOMAIN inserted : inserted[k] = i}) <= 1
       /\ \A k \in HookCallsAt(i) : hookCalls[k].pageId = pages[i].id
       /\ i \in Range(inserted) =>
            /\ pages[i].id \in DOMAIN eventsMap
            /\ eventsMap[pages[i].id] = Extraction(i).value
  /\ Range(inserted) \cup {hookCalls[k].at : k \in DOMAIN hookCalls}
       \subseteq Handled
  /\ \A k, l \in DOMAIN hookCalls : k < l => hookCalls[k].at < hookCalls[l].at
  /\ \A k, l \in DOMAIN inserted : k < l => inserted[k] < inserted[l]
  /\ (pc \in {"saveCachedState", "buildCalendar", "returned"})
       => Handled = DOMAIN pages

C8_Witness ==
  /\ AccumulateDone
  /\ Len(pages) >= 2
  /\ \E i, j \in Handled :
       /\ i \in Range(inserted)
       /\ HookCallsAt(j) # {}
       /\ hookCalls[CHOOSE k \in HookCallsAt(j) : TRUE].error.name
            # "DuplicateEventError"

(***************************************************************************)
(* C9. convert called with fromDate after untilDate fails with an          *)
(* invalid-argument error and has touched neither the storage (no get, no  *)
(* set) nor the remote source (no query).                                  *)
(***************************************************************************)
C9_InvalidRangeFailsFirst ==
  (runs > 0 /\ fromDate # {} /\ untilDate # {}
     /\ The(fromDate) > The(untilDate)) =>
    /\ pc = "thrown"
    /\ error = "InvalidArgumentError"
    /\ getCalls = 0
    /\ setCalls = 0
    /\ queries = <<>>
    /\ result = {}

C9_Witness ==
  /\ pc = "thrown"
  /\ error = "InvalidArgumentError"
  /\ fromDate # {} /\ untilDate # {}
  /\ The(fromDate) > The(untilDate)
  /\ store # EmptyMap

(***************************************************************************)
(* C10. The cursors consumed when the i-th response arrives are the start  *)
(* cursors of the first i queries (the initial no-cursor state included).  *)
(*                                                                         *)
(* As stated: a response whose next cursor was already consumed, the       *)
(* no-cursor state included, makes the run abort with a pagination error.  *)
(* Violated: a next cursor equal to the no-cursor state ends the walk and  *)
(* the run goes on to return a calendar.                                   *)
(*                                                                         *)
(* Amended: a response whose next cursor is a cursor (not the no-cursor    *)
(* state) that was already consumed makes the run abort with a pagination  *)
(* error; no calendar is returned and set is not called, whatever pages    *)
(* were fetched before.                                                    *)
(***************************************************************************)
Consumed(i) == {queries[j].start_cursor : j \in 1..i}

PaginationAbort ==
  /\ \/ pc = "fetchAllPages"
     \/ pc = "thrown" /\ error = "PaginationError"
  /\ result = {}
  /\ setCalls = 0
  /\ StorageGet(store, cacheKey) = state

C10_AnyRepeatedCursorAborts ==
  (\E i \in DOMAIN responses : responses[i] \in Consumed(i))
    => PaginationAbort

C10_RepeatedCursorAborts ==
  (\E i \in DOMAIN responses :
      responses[i] # NoCursor /\ responses[i] \in Consumed(i))
    => PaginationAbort

C10_Witness ==
  /\ pc = "thrown"
  /\ error = "PaginationError"
  /\ incrementalUpdateStorage
  /\ pages # <<>>
  /\ \E i \in DOMAIN responses :
       responses[i] # NoCursor /\ responses[i] \in Consumed(i)

(***************************************************************************)
(* C11. A failure of the remote query, on the first page or a later one,   *)
(* aborts convert with one NotionQueryError whose message carries the      *)
(* message of the cause; no fetched record has been merged (no extraction, *)
(* no insertion, no hook call: the working map is the seed), set is not    *)
(* called, the stored state is the one loaded, and no calendar is returned.*)
(***************************************************************************)
QueryFailed == \E e \in caught : e.at = "fetchAllPages"

C11_QueryFailureAborts ==
  QueryFailed =>
    /\ pc = "thrown"
    /\ error = "NotionQueryError"
    /\ \A e \in caught : errorMessage = "Notion query failed: " \o e.error
    /\ hookCalls = <<>> /\ extracted = <<>> /\ inserted = <<>>
    /\ eventsMap = PriorEvents
    /\ setCalls = 0
    /\ StorageGet(store, cacheKey) = state
    /\ result = {}

C11_Witness ==
  /\ QueryFailed
  /\ incrementalUpdateStorage
  /\ state # {}
  /\ Len(queries) >= 2
  /\ pages # <<>>

(***************************************************************************)
(* C12. As stated: when the storage's get raises, convert does not abort   *)
(* and goes on as a run with no prior state (empty seed map, lastFullSync  *)
(* = now, no modification-time filter). The code wraps the failure in a    *)
(* StorageError and throws it out of convert, so this statement is         *)
(* violated.                                                               *)
(***************************************************************************)
GetRaised == \E e \in caught : e.at = "getCachedState"

C12_GetFailureIsNoPriorState ==
  GetRaised =>
    /\ pc # "thrown"
    /\ state = {}
    /\ lastFullSync = syncedAt
    /\ \A q \in DOMAIN queries : queries[q].last_edited_time = {}

(***************************************************************************)
(* C13. As stated: when the storage's set raises at the persistence step,  *)
(* convert goes on to build and return the calendar of the working map.    *)
(* The code wraps the failure in a StorageError and throws it out of       *)
(* convert before buildCalendar, so this statement is violated.            *)
(***************************************************************************)
SetRaised == \E e \in caught : e.at = "saveCachedState"

C13_SetFailureStillReturns ==
  SetRaised =>
    /\ pc \in {"buildCalendar", "returned"}
    /\ pc = "returned" => result = {buildCalendar(eventsMap, calendarName)}

(***************************************************************************)
(* C14. With a storage that keeps one serialized document per key (the     *)
(* file repository: set overwrites the file), the state held for the key   *)
(* is always the state the last answered set was given, whatever other     *)
(* calls loaded or merged in between: the last write wins. The witness is  *)
(* the lost update: two calls load the same prior state before either      *)
(* saves, and an event one of them merged and returned is absent from the  *)
(* state held after both returned.                                         *)
(***************************************************************************)
C14_LastWriteWins ==
  (sharing = "copy" /\ saved # <<>>) => HeldValue = persisted

C14_Witness ==
  /\ sharing = "copy"
  /\ \E r, q \in Runs :
       /\ r # q
       /\ run[r].pc = "returned" /\ run[q].pc = "returned"
       /\ run[r].state # {} /\ run[q].state # {}
       /\ run[r].sawSaves = run[q].sawSaves
       /\ Len(saved) = run[r].sawSaves + 2
       /\ saved[Len(saved)] = r
       /\ \E st \in HeldValue :
            DOMAIN The(run[q].result).events \ DOMAIN st.events # {}

(***************************************************************************)
(* C15. As stated: the map a call accumulates into is its own. The state   *)
(* the storage holds changes only when set is called (it is the state the  *)
(* last set was given), and the map a call loaded is unchanged until that  *)
(* call's own accumulation. The code accumulates into state.events itself  *)
(* (no copy), so with a storage that hands out the object it holds this    *)
(* statement is violated.                                                  *)
(***************************************************************************)
C15_WorkingMapExclusive ==
  /\ HeldValue = persisted
  /\ \A q \in Runs :
       run[q].pc \in {"fetchAllPages", "accumulateEvents"} =>
         heap[run[q].eventsMap] = run[q].loaded

(***************************************************************************)
(* C16. As stated: getCacheKey digests the same string for identical       *)
(* parameter lists and different strings for parameter lists that differ   *)
(* in any parameter. The code joins the parameters with "-" and renders an *)
(* absent parameter as the empty string, so parameters holding "-" and an  *)
(* absent against an empty description give the same string: the second    *)
(* half is violated.                                                       *)
(***************************************************************************)
C16_CacheKeyInjective ==
  keys # <<>> => ((params[1] = params[2]) <=> (keys[1] = keys[2]))

(***************************************************************************)
(* Vocabulary of the properties of the file repository. A call is "after   *)
(* its get" when get has answered and set has not been called yet.         *)
(***************************************************************************)
AfterGet == getCalls = 1 /\ setCalls = 0

\* the documents the get of this call read (none: no file, or unreadable)
ReadDocuments == UNION {d.document : d \in data}

\* the file of the key was written by the last set, and the get of this
\* call read it
ReadBack ==
  /\ AfterGet
  /\ ReadDocuments # {}
  /\ \E s \in lastSet : s.wrote

C18_VersionMismatchIsAbsent ==
  (getCalls = 1 /\ \E doc \in ReadDocuments :
                      doc # Junk /\ doc.cacheSchemaVersion # {SchemaVersion})
  => /\ state = {}
     /\ lastFullSync = syncedAt
     /\ \A q \in DOMAIN queries : queries[q].last_edited_time = {}
     /\ DOMAIN eventsMap = {pages[i].id : i \in Range(inserted)}
     /\ setCalls = 0 => cacheKey \notin DOMAIN files
     /\ (setCalls = 1 /\ \E s \in lastSet : s.wrote) =>
          rehydrateState(files[cacheKey])
            = NotionIncrementalState(syncedAt, syncedAt, eventsMap)

C18_Witness ==
  /\ pc = "returned"
  /\ \E doc \in ReadDocuments :
       /\ doc # Junk
       /\ doc.cacheSchemaVersion = {}
       /\ "p1" \in DOMAIN doc.events
  /\ DOMAIN eventsMap = {"p2"}
  /\ \E s \in lastSet : s.wrote

(***************************************************************************)
(* C19. As stated: after a get that read a document that is unparsable or  *)
(* of another schema version, the call has no state and the file of the    *)
(* key is gone. The code removes the file of a mismatched version only: on *)
(* a parse error it returns undefined and leaves the file, so this         *)
(* statement is violated.                                                  *)
(***************************************************************************)
C19_BadDocumentRemoved ==
  (AfterGet /\ \E doc \in ReadDocuments :
                 doc = Junk \/ doc.cacheSchemaVersion # {SchemaVersion})
  => /\ state = {}
     /\ cacheKey \notin DOMAIN files

(***************************************************************************)
(* C20. When the get of a call read a well-formed snapshot of the expected *)
(* version: it returns undefined and removes the file exactly when         *)
(* maxCacheAgeMs # 0 and now - lastFullSync > maxCacheAgeMs; otherwise it  *)
(* returns the state and keeps the file (in particular whenever            *)
(* maxCacheAgeMs = 0).                                                     *)
(***************************************************************************)
C20_StaleEviction ==
  AfterGet =>
    \A d \in data : \A doc \in d.document :
      (doc # Junk /\ doc.cacheSchemaVersion = {SchemaVersion}) =>
        LET age == d.readAt - rehydrateState(doc).lastFullSync
            evicted == state = {} /\ cacheKey \notin DOMAIN files
            kept == /\ state = {rehydrateState(doc)}
                    /\ cacheKey \in DOMAIN files
                    /\ files[cacheKey] = doc
        IN /\ evicted <=> (maxCacheAgeMs # 0 /\ age > maxCacheAgeMs)
           /\ ~evicted => kept

C20_Witness ==
  /\ AfterGet
  /\ state = {}
  /\ cacheKey \notin DOMAIN files
  /\ \E doc \in ReadDocuments :
       doc # Junk /\ doc.cacheSchemaVersion = {SchemaVersion}

(***************************************************************************)
(* C21. When convert fails with CalendarBuildError, the error was raised   *)
(* at buildCalendar and its message carries the encoder's cause; no        *)
(* calendar is returned; and, with a storage configured, set was called    *)
(* before and the storage holds the state of this call, with every event   *)
(* the call merged. A failure of the encoder gives no other error.         *)
(***************************************************************************)
BuildFailed == pc = "thrown" /\ error = "CalendarBuildError"

C21_BuildFailureAfterPersist ==
  /\ BuildFailed =>
       /\ \E c \in caught :
            /\ c.at = "buildCalendar"
            /\ errorMessage = "iCal build failed: " \o c.error
       /\ result = {}
       /\ incrementalUpdateStorage =>
            /\ setCalls = 1
            /\ cacheKey \in DOMAIN store
            /\ store[cacheKey].events = eventsMap
            /\ \A i \in Range(inserted) :
                 pages[i].id \in DOMAIN store[cacheKey].events
  /\ (\E c \in caught : c.at = "buildCalendar") => BuildFailed

C21_Witness ==
  /\ BuildFailed
  /\ incrementalUpdateStorage
  /\ inserted # <<>>
  /\ runs = 2

(***************************************************************************)
(* Vocabulary of the properties of extractEventDetails: what the record    *)
(* handed to it carries, read off the record itself.                       *)
(***************************************************************************)
RecordProperties == record.page.properties
Carries(name) == name \in DOMAIN RecordProperties

TitleMissing == ~Carries(titlePropertyName)
TitleWrongKind ==
  Carries(titlePropertyName) /\ RecordProperties[titlePropertyName].type # "title"
TitlePasses == ~TitleMissing /\ ~TitleWrongKind

DateMissing == TitlePasses /\ ~Carries(datePropertyName)
DateWrongKind ==
  /\ TitlePasses
  /\ Carries(datePropertyName)
  /\ RecordProperties[datePropertyName].type # "date"
DateIsDate == TitlePasses /\ ~DateMissing /\ ~DateWrongKind
StartEmpty ==
  /\ DateIsDate
  /\ \/ RecordProperties[datePropertyName].date = Null
     \/ RecordProperties[datePropertyName].date.start \in {Null, EmptyString}
DatePasses == DateIsDate /\ ~StartEmpty

DescriptionRequested == record.descriptionPropertyName \notin {{}, {""}}
DescriptionMissing ==
  /\ DatePasses
  /\ DescriptionRequested
  /\ ~Carries(The(record.descriptionPropertyName))
DescriptionWrongKind ==
  /\ DatePasses
  /\ DescriptionRequested
  /\ Carries(The(record.descriptionPropertyName))
  /\ RecordProperties[The(record.descriptionPropertyName)].type # "rich_text"
Validated == DatePasses /\ ~DescriptionMissing /\ ~DescriptionWrongKind

RawStart == RecordProperties[datePropertyName].date.start
RawEnd == RecordProperties[datePropertyName].date.end

\* the string contains a "T"
CarriesTime(value) == value.k = "iso" \/ (value.k = "junk" /\ value.hasT)

\* the civil calendar, by its rules
LeapYear(y) == (y % 4 = 0 /\ y % 100 # 0) \/ y % 400 = 0
DaysInMonth(y, m) ==
  CASE m \in {4, 6, 9, 11} -> 30
    [] m = 2 -> IF LeapYear(y) THEN 29 ELSE 28
    [] OTHER -> 31
RealDate(value) ==
  /\ value.k = "ymd"
  /\ value.m \in 1..12
  /\ value.d \in 1..DaysInMonth(value.y, value.m)
Triple(value) == [year |-> value.y, month |-> value.m, day |-> value.d]
DayAfter(value) ==
  IF value.d < DaysInMonth(value.y, value.m)
  THEN [year |-> value.y, month |-> value.m, day |-> value.d + 1]
  ELSE IF value.m < 12
  THEN [year |-> value.y, month |-> value.m + 1, day |-> 1]
  ELSE [year |-> value.y + 1, month |-> 1, day |-> 1]
Precedes(a, b) ==
  \/ a.y < b.y
  \/ a.y = b.y /\ a.m < b.m
  \/ a.y = b.y /\ a.m = b.m /\ a.d < b.d
\* milliseconds from one [day, ms] instant to another
Elapsed(from, to) == (to.day - from.day) * MsPerDay + (to.ms - from.ms)

(***************************************************************************)
(* C22. extractEventDetails returns the error of the first failing check,  *)
(* in the order: title missing, title of another kind, date missing, date  *)
(* of another kind, empty start, description missing, description of       *)
(* another kind; a record that passes them all gives an event or a         *)
(* DateValueError. A later check that would fail as well changes nothing.  *)
(***************************************************************************)
C22_FirstFailingCheckWins ==
  \A o \in outcome :
    LET id == record.page.id
        wrongKind(property, expected) ==
          /\ ~o.ok
          /\ o.error.name = "InvalidPropertyTypeError"
          /\ o.error.pageId = id
          /\ o.error.property = property
          /\ o.error.expected = expected
        missing(property) ==
          /\ ~o.ok
          /\ o.error.name = "MissingPropertyError"
          /\ o.error.pageId = id
          /\ o.error.property = property
    IN /\ TitleMissing => missing(titlePropertyName)
       /\ TitleWrongKind => wrongKind(titlePropertyName, "title")
       /\ DateMissing => missing(datePropertyName)
       /\ DateWrongKind => wrongKind(datePropertyName, "date")
       /\ StartEmpty => ~o.ok /\ o.error.name = "EmptyDateError"
       /\ DescriptionMissing => missing(The(record.descriptionPropertyName))
       /\ DescriptionWrongKind =>
            wrongKind(The(record.descriptionPropertyName), "rich_text")
       /\ Validated => o.ok \/ o.error.name = "DateValueError"

\* an empty start reported for a record whose description is missing too
C22_Witness ==
  /\ \E o \in outcome : ~o.ok /\ o.error.name = "EmptyDateError"
  /\ RecordProperties[datePropertyName].date # Null
  /\ RawStart = EmptyString
  /\ DescriptionRequested
  /\ ~Carries(The(record.descriptionPropertyName))

(***************************************************************************)
(* C23. As stated: a validated record whose start is a real calendar date  *)
(* YYYY-MM-DD and whose end is absent gives an all-day event that starts   *)
(* on that date and ends (exclusive) on the civil day after it. Violated   *)
(* for the years 0000..0099, which Date.UTC reads as 1900..1999.           *)
(***************************************************************************)
C23_SingleDayEndsNextDay ==
  \A o \in outcome :
    (Validated /\ RealDate(RawStart) /\ RawEnd \in {Null, EmptyString}) =>
      /\ o.ok
      /\ o.value.kind = "all-day"
      /\ o.value.start = Triple(RawStart)
      /\ o.value.end = DayAfter(RawStart)

(***************************************************************************)
(* C24. As stated: a validated record whose start S and end E are real     *)
(* calendar dates gives, if E is not before S, an all-day event from S to  *)
(* the civil day after E, and if E is before S a DateValueError. Violated  *)
(* for the years 0000..0099 (the arithmetic of C23).                       *)
(***************************************************************************)
C24_InclusiveEndPlusOne ==
  \A o \in outcome :
    (Validated /\ RealDate(RawStart) /\ RealDate(RawEnd)) =>
      IF Precedes(RawEnd, RawStart)
      THEN ~o.ok /\ o.error.name = "DateValueError"
      ELSE /\ o.ok
           /\ o.value.kind = "all-day"
           /\ o.value.start = Triple(RawStart)
           /\ o.value.end = DayAfter(RawEnd)

(***************************************************************************)
(* C25. A validated record whose start is a parsable timestamp and whose   *)
(* end is null gives a timed event that starts at that instant and ends    *)
(* defaultDurationMs later.                                                *)
(***************************************************************************)
C25_DefaultDuration ==
  \A o \in outcome :
    (Validated /\ RawStart.k = "iso" /\ RawEnd = Null) =>
      /\ o.ok
      /\ o.value.kind = "timed"
      /\ Elapsed(RawStart, o.value.start) = 0
      /\ Elapsed(RawStart, o.value.end) = defaultDurationMs
      /\ o.value.end.ms \in 0..(MsPerDay - 1)

\* the end falls on the day after the start
C25_Witness ==
  /\ Validated
  /\ RawStart.k = "iso"
  /\ RawEnd = Null
  /\ \E o \in outcome : o.ok /\ o.value.end.day = RawStart.day + 1

(***************************************************************************)
(* C26. An event extractEventDetails produces is all-day exactly when      *)
(* neither the start string nor the end string contains a time component,  *)
(* and timed in every other case; an all-day event has date triples for    *)
(* both ends and a timed event has instants for both.                      *)
(***************************************************************************)
C26_VariantByTimeComponent ==
  \A o \in outcome :
    o.ok =>
      /\ o.value.kind \in {"all-day", "timed"}
      /\ o.value.kind = "all-day"
           <=> (~CarriesTime(RawStart) /\ ~CarriesTime(RawEnd))
      /\ o.value.kind = "all-day" =>
           DOMAIN o.value.start = {"year", "month", "day"}
           /\ DOMAIN o.value.end = {"year", "month", "day"}
      /\ o.value.kind = "timed" =>
           DOMAIN o.value.start = {"day", "ms"}
           /\ DOMAIN o.value.end = {"day", "ms"}

\* a date-only start with a timed end gives a timed event
C26_Witness ==
  /\ \E o \in outcome : o.ok /\ o.value.kind = "timed"
  /\ RawStart.k = "ymd"
  /\ RawEnd.k = "iso"

(***************************************************************************)
(* C27. When no description property name is given (undefined, or the      *)
(* empty string, which the code takes alike), the result does not depend   *)
(* on the description property of the record: no error names it, an event  *)
(* has the empty description, and the result is the one of the same record *)
(* without that property.                                                  *)
(***************************************************************************)
C27_NoDescriptionRequested ==
  \A o \in outcome :
    ~DescriptionRequested =>
      /\ o.ok => o.value.description = ""
      /\ ~o.ok => o.error.property \in {titlePropertyName, datePropertyName, ""}
      /\ ~o.ok => \/ TitleMissing \/ TitleWrongKind \/ DateMissing
                  \/ DateWrongKind \/ StartEmpty
                  \/ o.error.name = "DateValueError"
      /\ LET names == DOMAIN RecordProperties \ {The(descPropertyName)}
             bare == [record.page EXCEPT
                        !.properties = [n \in names |-> RecordProperties[n]]]
         IN o = extractEventDetails(titlePropertyName, datePropertyName,
                  record.descriptionPropertyName, defaultDurationMs, bare)

\* an event from a record that carries a description of another kind
C27_Witness ==
  /\ record.descriptionPropertyName = Undefined
  /\ Carries(The(descPropertyName))
  /\ RecordProperties[The(descPropertyName)].type # "rich_text"
  /\ \E o \in outcome : o.ok /\ o.value.description = ""

(***************************************************************************)
(* C28. The constructor of the file repository throws an                   *)
(* InvalidArgumentError exactly when maxCacheAgeMs is negative or          *)
(* directoryPath does not name an existing directory; otherwise it builds  *)
(* the repository with the maxCacheAgeMs given, zero included.             *)
(***************************************************************************)
C28_ConstructorArguments ==
  \A r \in repository :
    /\ (ctorArgs.maxCacheAgeMs < 0 \/ ctorArgs.directoryPath # "directory")
         <=> ~r.ok
    /\ ~r.ok => r.error.name = "InvalidArgumentError"
    /\ r.ok => r.value.maxCacheAgeMs = ctorArgs.maxCacheAgeMs

C28_Witness ==
  /\ \E r \in repository : r.ok /\ r.value.maxCacheAgeMs = 0
  /\ ctorArgs.maxCacheAgeMs = 0
  /\ ctorArgs.directoryPath = "directory"

(***************************************************************************)
(* C29. Every page query of a call carries the caller's date bounds, and   *)
(* carries the modification-time filter exactly when getCachedState gave   *)
(* the call a state; the filter's bound is then the lastSynced of that     *)
(* state. A call without storage, or whose storage holds nothing for the   *)
(* key, sends no such filter.                                              *)
(***************************************************************************)
C29_FilterIffPriorState ==
  /\ \A q \in DOMAIN queries :
       /\ queries[q].on_or_after = fromDate
       /\ queries[q].on_or_before = untilDate
       /\ queries[q].last_edited_time # {} <=> state # {}
       /\ \A st \in state : queries[q].last_edited_time = {st.lastSynced}
  /\ (queries # <<>> /\ ~incrementalUpdateStorage) => state = {}
  /\ (queries # <<>> /\ incrementalUpdateStorage /\ setCalls = 0) =>
       state = (IF cacheKey \in DOMAIN store THEN {store[cacheKey]} ELSE {})

\* two page queries in a call that loaded a state
C29_Witness ==
  /\ Len(queries) = 2
  /\ state # {}
  /\ \A q \in DOMAIN queries : queries[q].last_edited_time # {}

(***************************************************************************)
(* C30. fetchAllPages terminates: it leaves its loop, by returning or by   *)
(* throwing. Until then no two of its queries carry the same cursor, and   *)
(* each answer's records are appended to the ones fetched so far. When it  *)
(* returns, every answer but the last had a next cursor and the last had   *)
(* none; when it throws, the error is a PaginationError or a               *)
(* NotionQueryError.                                                       *)
(***************************************************************************)
WalkDone == pc # "fetchAllPages"

WalkSafe ==
  /\ \A i, j \in DOMAIN queries :
       queries[i].start_cursor = queries[j].start_cursor => i = j
  /\ Len(queries) <= Cardinality(WalkCursors) + 1
  /\ Len(pages) <= pageSize * Len(responses)
  /\ pc = "accumulateEvents" =>
       /\ Len(responses) = Len(queries)
       /\ responses # <<>>
       /\ \A i \in DOMAIN responses :
            (responses[i] \in {NoCursor, ""}) <=> i = Len(responses)
  /\ pc = "thrown" => error \in {"PaginationError", "NotionQueryError"}
  /\ pc \in {"fetchAllPages", "accumulateEvents", "thrown"}

WalkAppends ==
  \E fetched \in UNION {[1..n -> {db[id] : id \in PageIds}] : n \in 0..pageSize} :
    pages' = pages \o fetched

C30_WalkTerminates ==
  /\ []WalkSafe
  /\ [][WalkAppends]_vars
  /\ <>WalkDone

\* a walk that returned after three queries
C30_Witness ==
  /\ pc = "accumulateEvents"
  /\ Len(queries) = 3
  /\ Len(pages) = 3
  /\ cursor = ""

(***************************************************************************)
(* C31. buildCalendar hands the encoder one attribute record per entry of  *)
(* the final event map: its uid is the entry's identifier, a timed event's *)
(* start and end are instants, an all-day event's are calendar-date        *)
(* triples; a run with no prior state over fetched records of distinct     *)
(* identifiers returns as many calendar events as there are valid records. *)
(***************************************************************************)
IsInstant(value) == DOMAIN value = {"day", "ms"}
IsDateTriple(value) == DOMAIN value = {"year", "month", "day"}

Returned == pc = "returned" /\ result # {}

DistinctIdentifiers ==
  \A i, j \in DOMAIN pages : pages[i].id = pages[j].id => i = j

ValidRecords == {i \in DOMAIN pages : Extraction(i).ok}

\* C31: one encoder record per entry of the final map, in the variant's shape
C31_OneCalendarEventPerEntry ==
  Returned =>
    LET encoded == The(result).events
    IN /\ DOMAIN encoded = DOMAIN eventsMap
       /\ \A id \in DOMAIN eventsMap :
            /\ encoded[id].uid = id
            /\ encoded[id].title = eventsMap[id].title
            /\ encoded[id].description = eventsMap[id].description
            /\ encoded[id].start = eventsMap[id].start
            /\ encoded[id].end = eventsMap[id].end
            /\ eventsMap[id].kind = "timed" =>
                 IsInstant(encoded[id].start) /\ IsInstant(encoded[id].end)
            /\ eventsMap[id].kind = "all-day" =>
                 IsDateTriple(encoded[id].start)
                 /\ IsDateTriple(encoded[id].end)
       /\ (state = {} /\ DistinctIdentifiers) =>
            Cardinality(DOMAIN encoded) = Cardinality(ValidRecords)

\* a returned calendar of two events, one timed and one all-day, from a run
\* with no prior state
C31_Witness ==
  /\ Returned
  /\ state = {}
  /\ DistinctIdentifiers
  /\ Cardinality(ValidRecords) = 2
  /\ \E a, b \in DOMAIN eventsMap :
       eventsMap[a].kind = "timed" /\ eventsMap[b].kind = "all-day"

(***************************************************************************)
(* C32. As stated: an all-day start or end string that is not of the form  *)
(* YYYY-MM-DD makes extraction fail with a DateValueError, and the start   *)
(* triple of every all-day event extraction produces names a real calendar *)
(* date. Violated by the start string 2024-02-31, which the pattern and    *)
(* Date.UTC both accept.                                                   *)
(***************************************************************************)
\* neither raw value carries a time: the all-day branch is taken
AllDayBranch == Validated /\ ~CarriesTime(RawStart) /\ ~CarriesTime(RawEnd)

\* a string is there and is not of the form YYYY-MM-DD
OffPattern(value) == value.k \notin {"null", "empty", "ymd"}

StrictPatternEnforced ==
  \A o \in outcome :
    (AllDayBranch /\ (OffPattern(RawStart) \/ OffPattern(RawEnd))) =>
      ~o.ok /\ o.error.name = "DateValueError"

AllDayStartsAreRealDates ==
  \A o \in outcome :
    (o.ok /\ o.value.kind = "all-day") =>
      /\ o.value.start.month \in 1..12
      /\ o.value.start.day
           \in 1..DaysInMonth(o.value.start.year, o.value.start.month)

\* C32: off-pattern strings fail, and produced start triples are real dates
C32_StrictDateOnly == StrictPatternEnforced /\ AllDayStartsAreRealDates

(***************************************************************************)
(* C33. A title property of kind title with no text run gives the event    *)
(* the title "Untitled", and a requested description property of kind      *)
(* rich_text with no text run gives it the empty description; neither is   *)
(* an error: such a record fails only if its date values do.               *)
(***************************************************************************)
TitleHasNoRuns == RecordProperties[titlePropertyName].title = <<>>

DescriptionHasNoRuns ==
  /\ DescriptionRequested
  /\ RecordProperties[The(record.descriptionPropertyName)].rich_text = <<>>

\* the date values of the record are ones the extractor accepts
DatesAccepted ==
  IF CarriesTime(RawStart) \/ CarriesTime(RawEnd)
  THEN RawStart.k = "iso" /\ RawEnd.k \in {"null", "iso"}
  ELSE /\ RawStart.k = "ymd"
       /\ RawEnd.k \in {"null", "empty", "ymd"}
       /\ RawEnd.k = "ymd" =>
            DaysFromCivil(RawEnd.y, RawEnd.m, RawEnd.d)
              >= DaysFromCivil(RawStart.y, RawStart.m, RawStart.d)

\* C33: no text runs give the placeholder title and the empty description
C33_EmptyTextDefaults ==
  \A o \in outcome :
    /\ (Validated /\ TitleHasNoRuns) =>
         /\ o.ok => o.value.title = "Untitled"
         /\ ~o.ok => o.error.name = "DateValueError"
         /\ DatesAccepted => o.ok
    /\ (Validated /\ DescriptionHasNoRuns) =>
         /\ o.ok => o.value.description = ""
         /\ ~o.ok => o.error.name = "DateValueError"
         /\ DatesAccepted => o.ok

\* an event extracted from a record whose title and requested description
\* both have no text run
C33_Witness ==
  /\ Validated
  /\ TitleHasNoRuns
  /\ DescriptionHasNoRuns
  /\ \E o \in outcome :
       o.ok /\ o.value.title = "Untitled" /\ o.value.description = ""

(***************************************************************************)
(* C34. The event map the storage holds for a cache key only grows from    *)
(* one step to the next: the key stays, every identifier of its map stays, *)
(* and the event under an identifier stays the same, whatever the remote   *)
(* source returns for it in later runs.                                    *)
(***************************************************************************)
Extends(later, earlier) ==
  \A id \in DOMAIN earlier : id \in DOMAIN later /\ later[id] = earlier[id]

PersistedMapGrows ==
  \A key \in DOMAIN store :
    key \in DOMAIN store' /\ Extends(store'[key].events, store[key].events)

\* C34: the persisted event map only grows
C34_PersistedMapOnlyGrows == [][PersistedMapGrows]_vars

\* a second run persisted its state after the remote source returned, for
\* an identifier of the loaded map, a record that no longer gives the
\* stored event
C34_Witness ==
  /\ Persisted
  /\ pc = "returned"
  /\ state # {}
  /\ cacheKey \in DOMAIN store
  /\ \E i \in DOMAIN pages :
       /\ pages[i].id \in DOMAIN PriorEvents
       /\ pages[i].id \in DOMAIN store[cacheKey].events
       /\ Extraction(i) # Success(PriorEvents[pages[i].id])
       /\ store[cacheKey].events[pages[i].id] = PriorEvents[pages[i].id]

(***************************************************************************)
(* C35. As stated: with a file repository of maxCacheAgeMs = M > 0, the    *)
(* first call on a cache key that starts more than M after the baseline    *)
(* call (the latest earlier call on the key whose get returned nothing)    *)
(* gets no state from get and sends only unfiltered queries, however many  *)
(* incremental calls came in between. Violated: each incremental call      *)
(* writes its own syncedAt into lastFullSync, so the age is counted from   *)
(* the previous call.                                                      *)
(***************************************************************************)
SameKey(i, j) == syncs[i].cacheKey = syncs[j].cacheKey

\* call b is the baseline of call i
BaselineOf(i, b) ==
  /\ b < i
  /\ SameKey(i, b)
  /\ ~syncs[b].found
  /\ \A k \in (b + 1)..(i - 1) : SameKey(i, k) => syncs[k].found

Overdue(i, b) == syncs[i].syncedAt - syncs[b].syncedAt > maxCacheAgeMs

FirstOverdue(i) ==
  \E b \in DOMAIN syncs :
    /\ BaselineOf(i, b)
    /\ Overdue(i, b)
    /\ \A k \in (b + 1)..(i - 1) : SameKey(i, k) => ~Overdue(k, b)

\* C35: the first call more than M after the baseline is a full sync
C35_FullSyncAfterMaxAge ==
  maxCacheAgeMs > 0 =>
    \A i \in DOMAIN syncs :
      FirstOverdue(i) =>
        /\ ~syncs[i].found
        /\ (i = Len(syncs) /\ getCalls = 1) =>
             \A q \in DOMAIN queries : queries[q].last_edited_time = {}

(***************************************************************************)
(* C36. When convert returns a calendar and a storage is configured, set   *)
(* was called once in that call, and the event map of the state it was     *)
(* given is the map the calendar was built from: the same identifiers,     *)
(* and under each the event whose attributes the encoder got.              *)
(***************************************************************************)
Encodes(attributes, event) ==
  /\ attributes.uid = event.id
  /\ attributes.start = event.start
  /\ attributes.end = event.end
  /\ attributes.title = event.title
  /\ attributes.description = event.description
  /\ attributes.created = event.createdAt
  /\ attributes.lastModified = event.updatedAt

\* C36: the persisted map is the map of the returned calendar
C36_PersistedMapIsCalendarMap ==
  (Returned /\ incrementalUpdateStorage) =>
    /\ setCalls = 1
    /\ lastSet # {}
    /\ \A s \in lastSet :
         /\ DOMAIN s.state.events = DOMAIN The(result).events
         /\ \A id \in DOMAIN s.state.events :
              Encodes(The(result).events[id], s.state.events[id])

\* a returned calendar of a timed and an all-day event, after a set
C36_Witness ==
  /\ Returned
  /\ incrementalUpdateStorage
  /\ \E s \in lastSet :
       \E a, b \in DOMAIN s.state.events :
         /\ s.state.events[a].kind = "timed"
         /\ s.state.events[b].kind = "all-day"
         /\ {a, b} \subseteq DOMAIN The(result).events

(***************************************************************************)
(* C37. As stated: new Notion2ICal without a client, or with a pageSize    *)
(* that is zero or negative, throws an InvalidArgumentError; with a client *)
(* and no pageSize the instance has pageSize 100. Violated for pageSize 0, *)
(* which the || of the default replaces by 100 before the check.           *)
(***************************************************************************)
NoClient == constructorOptions.notionClient = {}

PageSizeGiven(n) == constructorOptions.pageSize = {Number(n)}

NonPositivePageSize == \E n \in (0 - 2)..0 : PageSizeGiven(n)

ClientMissingFails ==
  \A i \in instance :
    NoClient => ~i.ok /\ i.error.name = "InvalidArgumentError"

NegativePageSizeFails ==
  \A i \in instance :
    (\E n \in (0 - 2)..(0 - 1) : PageSizeGiven(n)) =>
      ~i.ok /\ i.error.name = "InvalidArgumentError"

PageSizeDefaults ==
  \A i \in instance :
    (~NoClient /\ constructorOptions.pageSize = {}) =>
      i.ok /\ i.value.pageSize = 100

\* C37: no client or a non-positive pageSize fails; the default is 100
C37_ConstructorArguments ==
  \A i \in instance :
    /\ (NoClient \/ NonPositivePageSize) =>
         ~i.ok /\ i.error.name = "InvalidArgumentError"
    /\ (~NoClient /\ constructorOptions.pageSize = {}) =>
         i.ok /\ i.value.pageSize = 100

(***************************************************************************)
(* C38. In the working event map of a call, in the state get returned to   *)
(* it and in the state it gave to set, every key is the id of the event    *)
(* stored under it.                                                        *)
(***************************************************************************)
KeyedById(map) == \A id \in DOMAIN map : map[id].id = id

\* C38: every event map is keyed by the id of its events
C38_KeysAreEventIds ==
  /\ KeyedById(eventsMap)
  /\ \A s \in state : KeyedById(s.events)
  /\ \A s \in lastSet : KeyedById(s.state.events)

\* a call that loaded a map from the file of an earlier call, added an
\* event to it and gave the two-entry map to set
C38_Witness ==
  /\ pc = "returned"
  /\ \E s \in state : Cardinality(DOMAIN s.events) = 1
  /\ Cardinality(DOMAIN eventsMap) = 2
  /\ \E s \in lastSet : s.state.events = eventsMap

(***************************************************************************)
(* C39. Once the remote source has returned a cursor that was already      *)
(* consumed, the walk can only end by throwing PaginationError, thrown as  *)
(* it is (no catch block caught it, it carries no wrapper message); and a  *)
(* NotionQueryError always wraps a failure of a query, never a repeated    *)
(* cursor.                                                                 *)
(***************************************************************************)
CycleSeen ==
  \E i \in DOMAIN responses :
    responses[i] # NoCursor /\ responses[i] \in Consumed(i)

\* C39: a pagination abort is a bare PaginationError
C39_PaginationErrorNotWrapped ==
  /\ (CycleSeen /\ pc # "fetchAllPages") =>
       /\ pc = "thrown"
       /\ error = "PaginationError"
       /\ caught = {}
       /\ errorMessage = ""
  /\ error = "PaginationError" => CycleSeen /\ caught = {}
  /\ error = "NotionQueryError" =>
       /\ ~CycleSeen
       /\ \E e \in caught : e.at = "fetchAllPages" /\ e.error \in Causes

\* a walk aborted by a repeated cursor after two queries
C39_Witness ==
  /\ pc = "thrown"
  /\ error = "PaginationError"
  /\ CycleSeen
  /\ Len(queries) >= 2

=============================================================================
